---- MODULE Spec2Model ----
(***************************************************************************)
(* A model of the duplicate-card analyzer of anki-manager                  *)
(* (src/duplicate_detector.py): text normalization, the difflib-based      *)
(* similarity score, the four duplicate categories of find_duplicates,     *)
(* generate_removal_suggestions, apply_removals and the driver             *)
(* process_deck_for_duplicates.  Spec is the driver on a loaded deck; the  *)
(* other specifications call the detector and its text functions directly. *)
(*                                                                         *)
(* A text is a sequence of one-character strings.  Card indices are the    *)
(* 0-based indices of the Python code; TLA+ sequences are 1-based, so the  *)
(* card with index i is cards[i + 1].                                      *)
(***************************************************************************)
EXTENDS Integers, Sequences, FiniteSets, TLC

VARIABLES
    deck_data,            \* the card list of the deck file first loaded
    cards,                \* the card list under analysis (process_deck_for_duplicates: cards)
    similarity_threshold, \* DuplicateDetector.similarity_threshold, in hundredths
    stats,                \* DuplicateDetector.stats
    duplicates,           \* the result of find_duplicates
    suggestions,          \* the result of generate_removal_suggestions
    cleaned_cards,        \* the result of apply_removals
    source,               \* "deck": cards is an input deck; "cleaned": cards is a cleaned deck fed back
    calls,                \* the number of find_duplicates calls made on the detector
    text_args,            \* the texts passed to a text function called on its own
    text_result,          \* what that call returned
    report,               \* the lines generate_report returned
    script_report,        \* what the script detect_duplicates.py saved
    workers,              \* the shards of a pairwise pass split by rows
    pc                    \* the driver's position

vars == <<deck_data, cards, similarity_threshold, stats, duplicates, suggestions,
          cleaned_cards, source, calls, text_args, text_result, report,
          script_report, workers, pc>>

\* the variables of a direct call of a text function
text_vars == <<text_args, text_result>>

\* the variables of the reports
report_vars == <<report, script_report>>

\* the variables of the detector and of the driver, but its position
deck_vars == <<deck_data, cards, similarity_threshold, stats, duplicates, suggestions,
               cleaned_cards, source, calls>>

----------------------------------------------------------------------------
(* Bounds *)

\* the largest number of cards in an input deck
MaxCards == 4

----------------------------------------------------------------------------
(* Cards.  A card is a dict: a function from its keys to their values.     *)
(* Lists and groups hold references to the card dicts, as in Python.       *)

EmptyText == << >>

Text_abc == <<"a", "b", "c">>
Text_abcd == <<"a", "b", "c", "d">>
Text_abcde == <<"a", "b", "c", "d", "e">>
Text_b_abc == <<"<", "b", ">", "a", "b", "c">>
Text_Abc_bang == <<" ", "A", "b", "c", "!">>
Text_hello_world == <<"h", "e", "l", "l", "o", " ", "w", "o", "r", "l", "d">>
Text_hello_world_dot == Text_hello_world \o <<".">>
Text_hello_world_today == Text_hello_world \o <<" ", "t", "o", "d", "a", "y">>

\* The card dicts of the decks, in both formats find_duplicates reads
\* ('front'/'back' keys, or a 'fields' dict with 'Front'/'Back'), some with a
\* key missing.  A deck is a list of references to these objects.
CardObjects ==
    << [front |-> Text_abc, back |-> Text_abcd],
      [front |-> Text_abcd, back |-> Text_abc],
      [fields |-> [Front |-> Text_Abc_bang, Back |-> EmptyText]],
      [front |-> Text_hello_world, back |-> EmptyText],
      [front |-> Text_hello_world_dot, back |-> EmptyText],
      [front |-> Text_hello_world_today],
      [back |-> EmptyText],
      [fields |-> [Front |-> Text_abcde]],
      [front |-> Text_abc],
      << >>,
      [fields |-> << >>],
      [fields |-> [Front |-> Text_b_abc, Back |-> EmptyText]] >>

CardRefs == 1..Len(CardObjects)

\* the distinct one-character fronts of the cards of a long deck
ReportLetters ==
    <<"a", "b", "c", "d", "e", "h", "l", "o", "r", "t", "w", "y", "f", "g", "i", "k">>

\* eight-character fronts that differ from one another in one or two places
ReportSimilarFronts ==
    << <<"a", "b", "c", "d", "e", "h", "l", "o">>,
       <<"a", "b", "c", "d", "e", "h", "l", "r">>,
       <<"a", "b", "c", "d", "e", "h", "l", "t">>,
       <<"a", "b", "c", "d", "e", "h", "w", "o">>,
       <<"y", "b", "c", "d", "e", "h", "w", "o">>,
       <<"a", "b", "c", "d", "e", "h", "l", "y">>,
       <<"a", "b", "c", "d", "e", "h", "l", "w">> >>

\* the card dicts of the long decks, in the 'fields' format: one card for
\* every letter, then one for every eight-character front
ReportCards ==
    [k \in 1..Len(ReportLetters) |->
        [fields |-> [Front |-> <<ReportLetters[k]>>, Back |-> EmptyText]]]
    \o [k \in 1..Len(ReportSimilarFronts) |->
        [fields |-> [Front |-> ReportSimilarFronts[k], Back |-> EmptyText]]]

\* every card dict a deck may refer to
AllCards == CardObjects \o ReportCards

\* the dict a card reference points to
Dict(card) == AllCards[card]

\* dict.get(key, default), were a missing key to give the text of None
GetNone(d, key, default) ==
    IF key \in DOMAIN d THEN d[key] ELSE <<"N", "o", "n", "e">>

\* dict.get(key, default)
Get(d, key, default) == IF key \in DOMAIN d THEN d[key] ELSE default

\* card.get('fields', {}).get('Front', '') if 'fields' in card else card.get('front', '')
Front(card) ==
    IF "fields" \in DOMAIN Dict(card)
    THEN Get(Dict(card)["fields"], "Front", EmptyText)
    ELSE Get(Dict(card), "front", EmptyText)

\* card.get('fields', {}).get('Back', '') if 'fields' in card else card.get('back', '')
Back(card) ==
    IF "fields" \in DOMAIN Dict(card)
    THEN Get(Dict(card)["fields"], "Back", EmptyText)
    ELSE Get(Dict(card), "back", EmptyText)

\* the 0-based indices of a list
Indices(list) == 0..(Len(list) - 1)

\* list[i] for a 0-based index i
At(list, i) == list[i + 1]

\* every text that is the front or the back of a card of the decks
DeckTexts == {Front(c) : c \in CardRefs} \cup {Back(c) : c \in CardRefs}

----------------------------------------------------------------------------
(* Texts *)

Whitespace == {" ", "\t", "\n"}

TrailingPunctuation == {".", ",", "!", "?", ";", ":"}

UpperCase == <<"A", "B", "C", "D", "E", "H", "L", "O", "R", "T", "W", "Y">>
LowerCase == <<"a", "b", "c", "d", "e", "h", "l", "o", "r", "t", "w", "y">>

\* str.lower() on one character
LowerChar(c) ==
    IF \E k \in 1..Len(UpperCase) : UpperCase[k] = c
    THEN LowerCase[CHOOSE k \in 1..Len(UpperCase) : UpperCase[k] = c]
    ELSE c

\* str.lower()
Lower(text) == [k \in 1..Len(text) |-> LowerChar(text[k])]

RECURSIVE SplitFrom(_, _, _, _)
\* str.split(): the maximal runs of non-whitespace characters, in order.
\* word is the run being read, words the runs already closed.
SplitFrom(text, k, word, words) ==
    IF k > Len(text)
    THEN IF word = << >> THEN words ELSE Append(words, word)
    ELSE IF text[k] \in Whitespace
         THEN SplitFrom(text, k + 1, << >>,
                        IF word = << >> THEN words ELSE Append(words, word))
         ELSE SplitFrom(text, k + 1, Append(word, text[k]), words)

Split(text) == SplitFrom(text, 1, << >>, << >>)

RECURSIVE JoinWords(_)
\* ' '.join(words)
JoinWords(words) ==
    IF words = << >> THEN << >>
    ELSE IF Len(words) = 1 THEN words[1]
    ELSE words[1] \o <<" ">> \o JoinWords(Tail(words))

RECURSIVE RStrip(_, _)
\* str.rstrip(chars)
RStrip(text, chars) ==
    IF text # << >> /\ text[Len(text)] \in chars
    THEN RStrip(SubSeq(text, 1, Len(text) - 1), chars)
    ELSE text

\* the three steps of DuplicateDetector.normalize_text
Normalized(text) == RStrip(Lower(JoinWords(Split(text))), TrailingPunctuation)

\* Normalized on the texts of the decks, computed once
NormalizedOfDeckTexts == {<<t, Normalized(t)>> : t \in DeckTexts}

\* DuplicateDetector.normalize_text
normalize_text(text) ==
    IF text \in DeckTexts
    THEN (CHOOSE r \in NormalizedOfDeckTexts : r[1] = text)[2]
    ELSE Normalized(text)

----------------------------------------------------------------------------
(* difflib.SequenceMatcher(None, a, b).ratio(), as called by               *)
(* calculate_similarity: no junk predicate, and the automatic junk         *)
(* heuristic only applies to a second sequence of 200 or more elements.    *)
(* Positions alo, ahi, blo, bhi are 0-based and half-open as in difflib.   *)

RECURSIVE RunLength(_, _, _, _, _, _)
\* the length of the longest common run a[i:i+k] == b[j:j+k] inside a[:ahi], b[:bhi]
RunLength(a, b, i, j, ahi, bhi) ==
    IF i < ahi /\ j < bhi /\ a[i + 1] = b[j + 1]
    THEN 1 + RunLength(a, b, i + 1, j + 1, ahi, bhi)
    ELSE 0

\* SequenceMatcher.find_longest_match: <<i, j, k>> with k maximal, then i
\* minimal, then j minimal; <<alo, blo, 0>> when nothing matches.
find_longest_match(a, b, alo, ahi, blo, bhi) ==
    LET starts == (alo..(ahi - 1)) \X (blo..(bhi - 1))
        size(p) == RunLength(a, b, p[1], p[2], ahi, bhi)
        sized == {<<p[1], p[2], size(p)>> : p \in starts}
        found == {m \in sized : m[3] > 0}
        Better(m, n) == \/ m[3] > n[3]
                        \/ m[3] = n[3] /\ m[1] < n[1]
                        \/ m[3] = n[3] /\ m[1] = n[1] /\ m[2] <= n[2]
    IN  IF found = {} THEN <<alo, blo, 0>>
        ELSE CHOOSE m \in found : \A n \in found : Better(m, n)

RECURSIVE MatchedSizeRematching(_, _, _, _, _, _)
\* the sum of the sizes of the matches, were the part to the right of the
\* longest match compared with the whole of b[blo:bhi] again
MatchedSizeRematching(a, b, alo, ahi, blo, bhi) ==
    LET m == find_longest_match(a, b, alo, ahi, blo, bhi)
        i == m[1]
        j == m[2]
        k == m[3]
    IN  IF k = 0 THEN 0
        ELSE k
             + (IF alo < i /\ blo < j
                THEN MatchedSizeRematching(a, b, alo, i, blo, j) ELSE 0)
             + (IF i + k < ahi
                THEN MatchedSizeRematching(a, b, i + k, ahi, blo, bhi) ELSE 0)

RECURSIVE MatchedSize(_, _, _, _, _, _)
\* the sum of the sizes of SequenceMatcher.get_matching_blocks(): the longest
\* match, then the same to its left and to its right
MatchedSize(a, b, alo, ahi, blo, bhi) ==
    LET m == find_longest_match(a, b, alo, ahi, blo, bhi)
        i == m[1]
        j == m[2]
        k == m[3]
    IN  IF k = 0 THEN 0
        ELSE k
             + (IF alo < i /\ blo < j THEN MatchedSize(a, b, alo, i, blo, j) ELSE 0)
             + (IF i + k < ahi /\ j + k < bhi
                THEN MatchedSize(a, b, i + k, ahi, j + k, bhi) ELSE 0)

\* SequenceMatcher.ratio(): 2.0 * matches / length, and 1.0 when length is 0.
\* The float is kept as the exact fraction num / den.
Ratio(a, b) ==
    LET length == Len(a) + Len(b)
    IN  IF length = 0 THEN [num |-> 1, den |-> 1]
        ELSE [num |-> 2 * MatchedSize(a, b, 0, Len(a), 0, Len(b)), den |-> length]

\* Ratio on the texts of the decks, computed once
RatioOfDeckTexts == {<<p[1], p[2], Ratio(p[1], p[2])>> : p \in DeckTexts \X DeckTexts}

\* DuplicateDetector.calculate_similarity
calculate_similarity(text1, text2) ==
    IF text1 \in DeckTexts /\ text2 \in DeckTexts
    THEN (CHOOSE r \in RatioOfDeckTexts : r[1] = text1 /\ r[2] = text2)[3]
    ELSE Ratio(text1, text2)

\* similarity >= threshold, the threshold given in hundredths.  A float
\* division is correctly rounded, so it compares with the float threshold
\* as the exact fraction compares with the exact threshold.
AtLeast(similarity, threshold) == similarity.num * 100 >= threshold * similarity.den

\* similarity < 1.0
BelowOne(similarity) == similarity.num < similarity.den

----------------------------------------------------------------------------
(* find_duplicates: exact duplicates *)

RECURSIVE AddToGroup(_, _, _)
\* front_groups[key].append(member) on an insertion-ordered defaultdict(list),
\* kept as the sequence of its [key, members] items
AddToGroup(groups, key, member) ==
    IF groups = << >>
    THEN << [key |-> key, members |-> <<member>>] >>
    ELSE IF groups[1].key = key
         THEN <<[key |-> key, members |-> Append(groups[1].members, member)]>>
              \o Tail(groups)
         ELSE <<groups[1]>> \o AddToGroup(Tail(groups), key, member)

RECURSIVE FrontGroupsFromUnguarded(_, _, _)
\* the loop that fills front_groups, without its test `if front_norm:`
FrontGroupsFromUnguarded(cardlist, i, groups) ==
    IF i >= Len(cardlist) THEN groups
    ELSE LET card == At(cardlist, i)
             front_norm == normalize_text(Front(card))
         IN  FrontGroupsFromUnguarded(cardlist, i + 1,
                 AddToGroup(groups, front_norm, [index |-> i, card |-> card]))

RECURSIVE FrontGroupsFrom(_, _, _)
\* the loop that fills front_groups, from index i on
FrontGroupsFrom(cardlist, i, groups) ==
    IF i >= Len(cardlist) THEN groups
    ELSE LET card == At(cardlist, i)
             front_norm == normalize_text(Front(card))
         IN  FrontGroupsFrom(cardlist, i + 1,
                 IF front_norm # EmptyText
                 THEN AddToGroup(groups, front_norm, [index |-> i, card |-> card])
                 ELSE groups)

front_groups(cardlist) == FrontGroupsFrom(cardlist, 0, << >>)

\* IsDuplicateGroup with the slip of len(group) > 0
IsDuplicateGroupOfOne(group) == Len(group.members) > 0

\* the test on a group of front_groups that makes it an exact-duplicate group
IsDuplicateGroup(group) == Len(group.members) > 1

\* duplicates['exact'] after the loop over front_groups.items()
ExactGroups(cardlist) ==
    LET dups == SelectSeq(front_groups(cardlist), IsDuplicateGroup)
    IN  [g \in 1..Len(dups) |->
            [type |-> "exact_front",
             cards |-> dups[g].members,
             reason |-> <<"Identical front text", dups[g].key>>]]

\* what the loop would add to stats['exact_duplicates'], were it one per group
NumberOfGroups(groups) == Len(groups)

RECURSIVE SumOfSizes(_)
\* what the loop would add to stats['exact_duplicates'], were it len(group) per group
SumOfSizes(groups) ==
    IF groups = << >> THEN 0
    ELSE Len(groups[1].cards) + SumOfSizes(Tail(groups))

RECURSIVE SumOfExtras(_)
\* what the loop adds to stats['exact_duplicates']: len(group) - 1 per group
SumOfExtras(groups) ==
    IF groups = << >> THEN 0
    ELSE (Len(groups[1].cards) - 1) + SumOfExtras(Tail(groups))

----------------------------------------------------------------------------
(* find_duplicates: the pairwise pass *)

\* the length above which a front takes part in the substring check
SubstringMinLength == 10

RECURSIVE PairsFrom(_, _, _)
\* the pairs (idx1, idx2) the nested loops visit, in the order they visit them
PairsFrom(n, i, j) ==
    IF i >= n THEN << >>
    ELSE IF j >= n THEN PairsFrom(n, i + 1, i + 2)
    ELSE [k \in 1..(n - j) |-> <<i, j + k - 1>>] \o PairsFrom(n, i + 1, i + 2)

Pairs(n) == PairsFrom(n, 0, 1)

\* ReverseTest with the slip of leaving out the second comparison
ReverseTestFrontOnly(card1, card2) ==
    normalize_text(Front(card1)) = normalize_text(Back(card2))

\* the condition of the `if` that appends to duplicates['reverse']
ReverseTest(card1, card2) ==
    /\ normalize_text(Front(card1)) = normalize_text(Back(card2))
    /\ normalize_text(Back(card1)) = normalize_text(Front(card2))

\* SimilarTest with the slip of leaving out `similarity < 1.0`
SimilarTestUpToOne(card1, card2, threshold) ==
    /\ ~ReverseTest(card1, card2)
    /\ Front(card1) # EmptyText /\ Front(card2) # EmptyText
    /\ AtLeast(calculate_similarity(Front(card1), Front(card2)), threshold)

\* SimilarTest with `if` in the place of `elif`
SimilarTestIndependent(card1, card2, threshold) ==
    /\ Front(card1) # EmptyText /\ Front(card2) # EmptyText
    /\ LET similarity == calculate_similarity(Front(card1), Front(card2))
       IN  AtLeast(similarity, threshold) /\ BelowOne(similarity)

\* the conditions under which the `elif` branch appends to duplicates['similar']
SimilarTest(card1, card2, threshold) ==
    /\ ~ReverseTest(card1, card2)
    /\ Front(card1) # EmptyText /\ Front(card2) # EmptyText
    /\ LET similarity == calculate_similarity(Front(card1), Front(card2))
       IN  AtLeast(similarity, threshold) /\ BelowOne(similarity)

\* front1 in front2
Contains(front2, front1) ==
    \E k \in 0..(Len(front2) - Len(front1)) :
        SubSeq(front2, k + 1, k + Len(front1)) = front1

\* the substring check: the roles of card1 and card2 in the group appended to
\* duplicates['substring'], or << >> when none is appended
SubstringRoles(card1, card2) ==
    LET front1 == Front(card1)
        front2 == Front(card2)
    IN  IF Len(front1) > SubstringMinLength /\ Len(front2) > SubstringMinLength
        THEN IF Contains(front2, front1) THEN <<"contained", "container">>
             ELSE IF Contains(front1, front2) THEN <<"container", "contained">>
             ELSE << >>
        ELSE << >>

\* {'index': idx, 'card': card}
CardInfo(cardlist, idx) == [index |-> idx, card |-> At(cardlist, idx)]

\* duplicates['reverse'] after the nested loops
ReverseGroups(cardlist) ==
    LET Hit(p) == ReverseTest(At(cardlist, p[1]), At(cardlist, p[2]))
        hits == SelectSeq(Pairs(Len(cardlist)), Hit)
    IN  [g \in 1..Len(hits) |->
            [type |-> "reverse",
             cards |-> <<CardInfo(cardlist, hits[g][1]), CardInfo(cardlist, hits[g][2])>>,
             reason |-> "Cards are reverses of each other"]]

\* duplicates['similar'] after the nested loops
SimilarGroups(cardlist, threshold) ==
    LET Hit(p) == SimilarTest(At(cardlist, p[1]), At(cardlist, p[2]), threshold)
        hits == SelectSeq(Pairs(Len(cardlist)), Hit)
    IN  [g \in 1..Len(hits) |->
            [type |-> "similar",
             cards |-> <<CardInfo(cardlist, hits[g][1]), CardInfo(cardlist, hits[g][2])>>,
             similarity |-> calculate_similarity(Front(At(cardlist, hits[g][1])),
                                                 Front(At(cardlist, hits[g][2])))]]

\* duplicates['substring'] after the nested loops
SubstringGroups(cardlist) ==
    LET Roles(p) == SubstringRoles(At(cardlist, p[1]), At(cardlist, p[2]))
        Hit(p) == Roles(p) # << >>
        hits == SelectSeq(Pairs(Len(cardlist)), Hit)
    IN  [g \in 1..Len(hits) |->
            [type |-> "substring",
             cards |-> <<[index |-> hits[g][1], card |-> At(cardlist, hits[g][1]),
                          role |-> Roles(hits[g])[1]],
                         [index |-> hits[g][2], card |-> At(cardlist, hits[g][2]),
                          role |-> Roles(hits[g])[2]]>>,
             reason |-> IF Roles(hits[g])[1] = "contained"
                        THEN "First card is contained in second"
                        ELSE "Second card is contained in first"]]

\* the dict find_duplicates returns
find_duplicates_result(cardlist, threshold) ==
    [exact |-> ExactGroups(cardlist),
     similar |-> SimilarGroups(cardlist, threshold),
     reverse |-> ReverseGroups(cardlist),
     substring |-> SubstringGroups(cardlist)]

\* self.stats after find_duplicates, were total_cards the last index plus two
find_duplicates_stats_off_by_one(cardlist, found, old) ==
    [total_cards |-> Len(cardlist) + 1,
     exact_duplicates |-> old.exact_duplicates + SumOfExtras(found.exact),
     similar_duplicates |-> old.similar_duplicates + Len(found.similar),
     reverse_duplicates |-> old.reverse_duplicates + Len(found.reverse)]

\* self.stats after find_duplicates: total_cards is set, the others are added to
find_duplicates_stats(cardlist, found, old) ==
    [total_cards |-> Len(cardlist),
     exact_duplicates |-> old.exact_duplicates + SumOfExtras(found.exact),
     similar_duplicates |-> old.similar_duplicates + Len(found.similar),
     reverse_duplicates |-> old.reverse_duplicates + Len(found.reverse)]

----------------------------------------------------------------------------
(* generate_removal_suggestions.  The loops run over an accumulator        *)
(* [suggestions, cards_to_remove]: the list and the set of the code.       *)

RECURSIVE RemoveRestByPosition(_, _, _, _)
\* RemoveRest with the slip of suggesting the member's position in its group
\* instead of the card's index
RemoveRestByPosition(group, k, kept, acc) ==
    IF k > Len(group.cards) THEN acc
    ELSE LET card_info == group.cards[k]
         IN  RemoveRestByPosition(group, k + 1, kept,
                 IF card_info.index \notin acc.cards_to_remove
                 THEN [suggestions |-> Append(acc.suggestions,
                                          [action |-> "remove",
                                           index |-> k - 1,
                                           reason |-> group.reason,
                                           duplicate_of |-> kept]),
                       cards_to_remove |-> acc.cards_to_remove \cup {card_info.index}]
                 ELSE acc)

RECURSIVE RemoveRestChained(_, _, _, _)
\* RemoveRest with the slip of naming the previous member of the group as
\* the card that is kept
RemoveRestChained(group, k, kept, acc) ==
    IF k > Len(group.cards) THEN acc
    ELSE LET card_info == group.cards[k]
         IN  RemoveRestChained(group, k + 1, kept,
                 IF card_info.index \notin acc.cards_to_remove
                 THEN [suggestions |-> Append(acc.suggestions,
                                          [action |-> "remove",
                                           index |-> card_info.index,
                                           reason |-> group.reason,
                                           duplicate_of |-> group.cards[k - 1].index]),
                       cards_to_remove |-> acc.cards_to_remove \cup {card_info.index}]
                 ELSE acc)

RECURSIVE RemoveRest(_, _, _, _)
\* the inner loop over cards[1:] of one exact group, from position k (1-based) on
RemoveRest(group, k, kept, acc) ==
    IF k > Len(group.cards) THEN acc
    ELSE LET card_info == group.cards[k]
         IN  RemoveRest(group, k + 1, kept,
                 IF card_info.index \notin acc.cards_to_remove
                 THEN [suggestions |-> Append(acc.suggestions,
                                          [action |-> "remove",
                                           index |-> card_info.index,
                                           reason |-> group.reason,
                                           duplicate_of |-> kept]),
                       cards_to_remove |-> acc.cards_to_remove \cup {card_info.index}]
                 ELSE acc)

RECURSIVE HandleExactAllMembers(_, _)
\* HandleExact with the slip of looping over cards instead of cards[1:]
HandleExactAllMembers(groups, acc) ==
    IF groups = << >> THEN acc
    ELSE HandleExactAllMembers(Tail(groups),
                     RemoveRest(groups[1], 1, groups[1].cards[1].index, acc))

RECURSIVE HandleExact(_, _)
\* the loop over duplicates['exact']: keep the first card, remove the rest
HandleExact(groups, acc) ==
    IF groups = << >> THEN acc
    ELSE HandleExact(Tail(groups),
                     RemoveRest(groups[1], 2, groups[1].cards[1].index, acc))

RECURSIVE HandleReverseRemoving(_, _)
\* HandleReverse with the slip of suggesting the second card of a reverse
\* pair for removal
HandleReverseRemoving(groups, acc) ==
    IF groups = << >> THEN acc
    ELSE LET c == groups[1].cards
         IN  HandleReverseRemoving(Tail(groups),
                 IF c[1].index \notin acc.cards_to_remove
                    /\ c[2].index \notin acc.cards_to_remove
                 THEN [suggestions |-> Append(acc.suggestions,
                                          [action |-> "remove",
                                           index |-> c[2].index,
                                           reason |-> groups[1].reason,
                                           duplicate_of |-> c[1].index]),
                       cards_to_remove |-> acc.cards_to_remove \cup {c[2].index}]
                 ELSE acc)

RECURSIVE HandleReverse(_, _)
\* the loop over duplicates['reverse']
HandleReverse(groups, acc) ==
    IF groups = << >> THEN acc
    ELSE LET c == groups[1].cards
         IN  HandleReverse(Tail(groups),
                 IF c[1].index \notin acc.cards_to_remove
                    /\ c[2].index \notin acc.cards_to_remove
                 THEN [acc EXCEPT !.suggestions = Append(@,
                          [action |-> "merge_reverse",
                           indices |-> <<c[1].index, c[2].index>>])]
                 ELSE acc)

RECURSIVE HandleSimilarFirstOnly(_, _)
\* the loop over duplicates['similar'], were it to test the first member only
HandleSimilarFirstOnly(groups, acc) ==
    IF groups = << >> THEN acc
    ELSE LET c == groups[1].cards
         IN  HandleSimilarFirstOnly(Tail(groups),
                 IF c[1].index \notin acc.cards_to_remove
                 THEN [acc EXCEPT !.suggestions = Append(@,
                          [action |-> "review",
                           indices |-> <<c[1].index, c[2].index>>,
                           similarity |-> groups[1].similarity,
                           suggestion |-> "Manual review needed"])]
                 ELSE acc)

RECURSIVE HandleSimilar(_, _)
\* the loop over duplicates['similar']
HandleSimilar(groups, acc) ==
    IF groups = << >> THEN acc
    ELSE LET c == groups[1].cards
         IN  HandleSimilar(Tail(groups),
                 IF c[1].index \notin acc.cards_to_remove
                    /\ c[2].index \notin acc.cards_to_remove
                 THEN [acc EXCEPT !.suggestions = Append(@,
                          [action |-> "review",
                           indices |-> <<c[1].index, c[2].index>>,
                           similarity |-> groups[1].similarity,
                           suggestion |-> "Manual review needed"])]
                 ELSE acc)

\* next(c['index'] for c in cards if c['role'] == 'contained')
ContainedIndex(c) ==
    c[CHOOSE k \in 1..Len(c) :
          /\ c[k].role = "contained"
          /\ \A h \in 1..(k - 1) : c[h].role # "contained"].index

RECURSIVE HandleSubstringBothMembers(_, _)
\* the loop over duplicates['substring'], were it to test both members
HandleSubstringBothMembers(groups, acc) ==
    IF groups = << >> THEN acc
    ELSE LET c == groups[1].cards
         IN  HandleSubstringBothMembers(Tail(groups),
                 IF \A k \in 1..Len(c) : c[k].index \notin acc.cards_to_remove
                 THEN [acc EXCEPT !.suggestions = Append(@,
                          [action |-> "review",
                           indices |-> [k \in 1..Len(c) |-> c[k].index],
                           suggestion |-> "Consider removing the shorter card"])]
                 ELSE acc)

RECURSIVE HandleSubstringUntested(_, _)
\* the loop over duplicates['substring'], without its test of contained_idx
HandleSubstringUntested(groups, acc) ==
    IF groups = << >> THEN acc
    ELSE LET c == groups[1].cards
         IN  HandleSubstringUntested(Tail(groups),
                 [acc EXCEPT !.suggestions = Append(@,
                     [action |-> "review",
                      indices |-> [k \in 1..Len(c) |-> c[k].index],
                      suggestion |-> "Consider removing the shorter card"])])

RECURSIVE HandleSubstring(_, _)
\* the loop over duplicates['substring']
HandleSubstring(groups, acc) ==
    IF groups = << >> THEN acc
    ELSE LET c == groups[1].cards
         IN  HandleSubstring(Tail(groups),
                 IF ContainedIndex(c) \notin acc.cards_to_remove
                 THEN [acc EXCEPT !.suggestions = Append(@,
                          [action |-> "review",
                           indices |-> [k \in 1..Len(c) |-> c[k].index],
                           suggestion |-> "Consider removing the shorter card"])]
                 ELSE acc)

\* DuplicateDetector.generate_removal_suggestions
generate_removal_suggestions(dups) ==
    HandleSubstring(dups.substring,
        HandleSimilar(dups.similar,
            HandleReverse(dups.reverse,
                HandleExact(dups.exact,
                    [suggestions |-> << >>, cards_to_remove |-> {}])))).suggestions

----------------------------------------------------------------------------
(* apply_removals *)

\* indices_to_remove with the slip of collecting the kept card, duplicate_of,
\* instead of the duplicate
indices_to_remove_kept(suggs) ==
    {suggs[k].duplicate_of : k \in {h \in 1..Len(suggs) : suggs[h].action = "remove"}}

\* indices_to_remove with the slip of also collecting the second card of
\* every suggestion that is not a 'remove'
indices_to_remove_any_action(suggs) ==
    {IF suggs[k].action = "remove" THEN suggs[k].index ELSE suggs[k].indices[2] :
        k \in 1..Len(suggs)}

\* the set built by the first loop of apply_removals
indices_to_remove(suggs) ==
    {suggs[k].index : k \in {h \in 1..Len(suggs) : suggs[h].action = "remove"}}

RECURSIVE KeepFrom(_, _, _)
\* the second loop of apply_removals, from index i on
KeepFrom(cardlist, i, removed) ==
    IF i >= Len(cardlist) THEN << >>
    ELSE (IF i \notin removed THEN <<At(cardlist, i)>> ELSE << >>)
         \o KeepFrom(cardlist, i + 1, removed)

\* apply_removals with the slip of numbering the cards from 1
apply_removals_from_one(cardlist, suggs) ==
    KeepFrom(cardlist, 0, {r - 1 : r \in indices_to_remove(suggs)})

\* DuplicateDetector.apply_removals
apply_removals(cardlist, suggs) == KeepFrom(cardlist, 0, indices_to_remove(suggs))

----------------------------------------------------------------------------
(* The decks and thresholds the analysis is run on *)

\* the lists of at most n cards taken from refs
DecksOf(refs, n) == UNION {[1..k -> refs] : k \in 0..n}

\* the cards of the decks the driver is run on
PoolRefs == {c \in CardRefs : c <= 8}

Decks == DecksOf(PoolRefs, MaxCards)

\* similarity_threshold: float = 0.85, in hundredths
DefaultThreshold == 85

Thresholds == {DefaultThreshold, 75}

\* the stats dict of a new DuplicateDetector
NewStats ==
    [total_cards |-> 0, exact_duplicates |-> 0,
     similar_duplicates |-> 0, reverse_duplicates |-> 0]

\* the value of `duplicates` before find_duplicates has filled it
NoDuplicates == [exact |-> << >>, similar |-> << >>, reverse |-> << >>, substring |-> << >>]

----------------------------------------------------------------------------
(* The driver, process_deck_for_duplicates *)

\* a deck of decks is loaded and a DuplicateDetector with a threshold of
\* thresholds is at hand, the driver at position at
Loaded(decks, thresholds, at) ==
    /\ deck_data \in decks
    /\ cards = deck_data
    /\ similarity_threshold \in thresholds
    /\ stats = NewStats
    /\ duplicates = NoDuplicates
    /\ suggestions = << >>
    /\ cleaned_cards = << >>
    /\ source = "deck"
    /\ calls = 0
    /\ text_args = << >>
    /\ text_result = << >>
    /\ report = << >>
    /\ script_report = << >>
    /\ workers = << >>
    /\ pc = at

\* the deck is loaded and a DuplicateDetector is constructed
Init == Loaded(Decks, Thresholds, "loaded")

\* duplicates = detector.find_duplicates(cards)
FindDuplicates ==
    /\ pc = "loaded"
    /\ LET found == find_duplicates_result(cards, similarity_threshold)
       IN  /\ duplicates' = found
           /\ stats' = find_duplicates_stats(cards, found, stats)
    /\ calls' = calls + 1
    /\ pc' = "found"
    /\ UNCHANGED <<deck_data, cards, similarity_threshold, suggestions, cleaned_cards, source>>
    /\ UNCHANGED text_vars
    /\ UNCHANGED report_vars
    /\ UNCHANGED workers

\* suggestions = detector.generate_removal_suggestions(duplicates)
GenerateRemovalSuggestions ==
    /\ pc = "found"
    /\ suggestions' = generate_removal_suggestions(duplicates)
    /\ pc' = "suggested"
    /\ UNCHANGED <<deck_data, cards, similarity_threshold, stats, duplicates,
                   cleaned_cards, source, calls>>
    /\ UNCHANGED text_vars
    /\ UNCHANGED report_vars
    /\ UNCHANGED workers

\* cleaned_cards = detector.apply_removals(cards, suggestions)
ApplyRemovals ==
    /\ pc = "suggested"
    /\ cleaned_cards' = apply_removals(cards, suggestions)
    /\ pc' = "cleaned"
    /\ UNCHANGED <<deck_data, cards, similarity_threshold, stats, duplicates,
                   suggestions, source, calls>>
    /\ UNCHANGED text_vars
    /\ UNCHANGED report_vars
    /\ UNCHANGED workers

\* process_deck_for_duplicates is run again, on the cleaned deck it saved:
\* the cleaned cards are loaded and a new DuplicateDetector is constructed
ProcessCleanedDeck ==
    /\ pc = "cleaned"
    /\ cards' = cleaned_cards
    /\ stats' = NewStats
    /\ duplicates' = NoDuplicates
    /\ suggestions' = << >>
    /\ cleaned_cards' = << >>
    /\ source' = "cleaned"
    /\ calls' = 0
    /\ pc' = "loaded"
    /\ UNCHANGED <<deck_data, similarity_threshold>>
    /\ UNCHANGED text_vars
    /\ UNCHANGED report_vars
    /\ UNCHANGED workers

Next ==
    \/ FindDuplicates
    \/ GenerateRemovalSuggestions
    \/ ApplyRemovals
    \/ ProcessCleanedDeck

Spec == Init /\ [][Next]_vars

----------------------------------------------------------------------------
(* Vocabulary of the properties: what the report and the suggestion list   *)
(* of the current state say, read off the state variables.                 *)

\* find_duplicates has returned
Found == pc \in {"found", "suggested", "cleaned"}

\* generate_removal_suggestions has returned
Suggested == pc \in {"suggested", "cleaned"}

\* the positions of the 'remove' suggestions in the suggestion list
RemovePositions == {k \in 1..Len(suggestions) : suggestions[k].action = "remove"}

\* the indices the 'remove' suggestions target
RemoveTargets == {suggestions[k].index : k \in RemovePositions}

\* the indices of the members of a group
MemberIndices(group) == {group.cards[k].index : k \in 1..Len(group.cards)}

\* the least element of a non-empty set of indices
Least(S) == CHOOSE x \in S : \A y \in S : x <= y

\* the members of the Exact groups other than the first (by input order) of each
NonFirstExactMembers ==
    UNION {MemberIndices(duplicates.exact[g]) \ {Least(MemberIndices(duplicates.exact[g]))} :
           g \in 1..Len(duplicates.exact)}

\* the normalized front of the card with index i
NormFront(i) == normalize_text(Front(At(cards, i)))

\* the normalized back of the card with index i
NormBack(i) == normalize_text(Back(At(cards, i)))

\* the unordered pairs of indices, as i < j
IndexPairs == {p \in Indices(cards) \X Indices(cards) : p[1] < p[2]}

----------------------------------------------------------------------------
(* C1 *)

\* C1: after find_duplicates and generate_removal_suggestions every 'remove'
\* suggestion targets a valid index, 0 <= index < number of cards, and no
\* index is the target of more than one 'remove' suggestion.
C1_RemoveTargetsValidAndUnique ==
    Suggested =>
        /\ \A k \in RemovePositions :
               suggestions[k].index >= 0 /\ suggestions[k].index < Len(cards)
        /\ \A k, h \in RemovePositions :
               suggestions[k].index = suggestions[h].index => k = h

\* two Exact groups have each given a 'remove' suggestion
C1_Witness ==
    /\ pc = "suggested"
    /\ Len(duplicates.exact) = 2
    /\ Cardinality(RemovePositions) = 2

----------------------------------------------------------------------------
(* C2 *)

\* C2: find_duplicates on the cleaned sequence (the input with every
\* 'remove'-targeted index dropped by apply_removals) yields no Exact group,
\* hence no 'remove' suggestion.
C2_CleanedDeckHasNoExactGroup ==
    source = "cleaned" =>
        /\ Found => duplicates.exact = << >>
        /\ Suggested => RemovePositions = {}

\* the cleaned deck of a deck that lost two cards has been analysed again
C2_Witness ==
    /\ source = "cleaned"
    /\ pc = "suggested"
    /\ Len(cards) + 2 <= Len(deck_data)
    /\ Len(cards) >= 2

----------------------------------------------------------------------------
(* C3 *)

\* C3: first member wins: in each Exact group the member with the smallest
\* input index is kept, each other member gets exactly one 'remove'
\* suggestion whose duplicate_of is the kept member's index, and the set of
\* 'remove' targets is exactly the set of non-first members of all Exact groups.
C3_FirstMemberWins ==
    Suggested =>
        /\ \A g \in 1..Len(duplicates.exact) :
               LET members == MemberIndices(duplicates.exact[g])
                   first == Least(members)
               IN  /\ first \notin RemoveTargets
                   /\ \A i \in members \ {first} :
                          /\ Cardinality({k \in RemovePositions :
                                             suggestions[k].index = i}) = 1
                          /\ \A k \in RemovePositions :
                                 suggestions[k].index = i =>
                                     suggestions[k].duplicate_of = first
        /\ RemoveTargets = NonFirstExactMembers

\* an Exact group of three members whose first member is not the first card
C3_Witness ==
    /\ pc = "suggested"
    /\ \E g \in 1..Len(duplicates.exact) :
           /\ Len(duplicates.exact[g].cards) = 3
           /\ Least(MemberIndices(duplicates.exact[g])) > 0

----------------------------------------------------------------------------
(* C4 *)

\* C4: the Exact groups are exactly the classes of size >= 2 of the relation
\* 'same non-empty normalize(front)': the members of a group share one
\* normalized front, a group has at least 2 members, every record whose
\* non-empty normalized front is shared by another record is in the group
\* of that key, and no record is in two Exact groups.
C4_ExactGroupsAreTheClasses ==
    Found =>
        /\ \A g \in 1..Len(duplicates.exact) :
               LET group == duplicates.exact[g]
               IN  /\ Len(group.cards) >= 2
                   /\ Cardinality(MemberIndices(group)) = Len(group.cards)
                   /\ MemberIndices(group) \subseteq Indices(cards)
                   /\ \A i, j \in MemberIndices(group) :
                          NormFront(i) = NormFront(j) /\ NormFront(i) # EmptyText
                   /\ \A k \in 1..Len(group.cards) :
                          group.cards[k].card = At(cards, group.cards[k].index)
        /\ \A p \in IndexPairs :
               NormFront(p[1]) = NormFront(p[2]) /\ NormFront(p[1]) # EmptyText
                   => \E g \in 1..Len(duplicates.exact) :
                          {p[1], p[2]} \subseteq MemberIndices(duplicates.exact[g])
        /\ \A g, h \in 1..Len(duplicates.exact) :
               g # h => MemberIndices(duplicates.exact[g])
                            \cap MemberIndices(duplicates.exact[h]) = {}

\* two Exact groups in one deck, one of them joining fronts that differ as raw text
C4_Witness ==
    /\ pc = "found"
    /\ Len(duplicates.exact) = 2
    /\ \E g \in 1..Len(duplicates.exact) :
           \E i, j \in MemberIndices(duplicates.exact[g]) :
               Front(At(cards, i)) # Front(At(cards, j))

----------------------------------------------------------------------------
(* C5 *)

\* the number of indices of S below i
Below(S, i) == Cardinality({r \in S : r < i})

\* C5: only Exact groups cause removal: no 'remove' suggestion comes from a
\* Reverse, Similar or Substring group, so apply_removals keeps every card
\* that is not a non-first member of an Exact group.
C5_OnlyExactGroupsRemove ==
    /\ Suggested => RemoveTargets \subseteq NonFirstExactMembers
    /\ pc = "cleaned" =>
           \A i \in Indices(cards) \ NonFirstExactMembers :
               /\ i - Below(NonFirstExactMembers, i) < Len(cleaned_cards)
               /\ At(cleaned_cards, i - Below(NonFirstExactMembers, i)) = At(cards, i)

\* the indices of the members of the groups of one category
GroupedIn(groups) == UNION {MemberIndices(groups[g]) : g \in 1..Len(groups)}

\* a card only in a Reverse group and a card in a Similar group are kept,
\* behind a card that was removed
C5_Witness ==
    /\ pc = "cleaned"
    /\ \E i \in GroupedIn(duplicates.reverse) \ GroupedIn(duplicates.exact) :
           /\ Below(RemoveTargets, i) > 0
           /\ \E j \in GroupedIn(duplicates.similar) \ NonFirstExactMembers : j > i

----------------------------------------------------------------------------
(* C6 *)

\* the indices that no 'remove' suggestion targets
KeptIndices == Indices(cards) \ RemoveTargets

\* C6: apply_removals returns the original sequence minus exactly the
\* records whose index a 'remove' suggestion targets, the kept records in
\* their relative order; the other suggestions have no effect, and the
\* input card list is not modified.
C6_CleanedIsInputMinusRemoved ==
    pc = "cleaned" =>
        /\ Len(cleaned_cards) = Cardinality(KeptIndices)
        /\ \A i \in KeptIndices :
               At(cleaned_cards, Below(KeptIndices, i)) = At(cards, i)
        /\ source = "deck" => cards = deck_data

\* a card was dropped between two kept cards that differ, with a
\* 'merge_reverse' and a 'review' suggestion in the list
C6_Witness ==
    /\ pc = "cleaned"
    /\ \E r \in RemoveTargets : \E i, j \in KeptIndices :
           i < r /\ r < j /\ At(cards, i) # At(cards, j) /\ At(cards, r) # At(cards, j)
    /\ \E k, h \in 1..Len(suggestions) :
           suggestions[k].action = "merge_reverse" /\ suggestions[h].action = "review"

----------------------------------------------------------------------------
(* C7 *)

\* the Reverse condition on the cards with indices a and b
ReverseCondition(a, b) == NormFront(a) = NormBack(b) /\ NormBack(a) = NormFront(b)

\* the groups of a category whose two members are the cards of the pair p, in order
GroupsOfPair(groups, p) ==
    {g \in 1..Len(groups) :
        /\ Len(groups[g].cards) = 2
        /\ groups[g].cards[1].index = p[1]
        /\ groups[g].cards[2].index = p[2]}

\* C7: the Reverse groups are exactly the reverse pairs: a group {a, b} is
\* emitted if and only if a # b, normalize(front_a) = normalize(back_b) and
\* normalize(back_a) = normalize(front_b); each such unordered pair is
\* emitted exactly once and each group has exactly two members.
C7_ReverseGroupsAreTheReversePairs ==
    Found =>
        /\ \A g \in 1..Len(duplicates.reverse) :
               \E p \in IndexPairs :
                   /\ g \in GroupsOfPair(duplicates.reverse, p)
                   /\ duplicates.reverse[g].cards[1].card = At(cards, p[1])
                   /\ duplicates.reverse[g].cards[2].card = At(cards, p[2])
        /\ \A p \in IndexPairs :
               Cardinality(GroupsOfPair(duplicates.reverse, p))
                   = IF ReverseCondition(p[1], p[2]) THEN 1 ELSE 0

\* a Reverse group of two cards with different non-empty fronts, in a deck
\* with a pair that is not a reverse pair
C7_Witness ==
    /\ pc = "found"
    /\ \E p \in IndexPairs :
           /\ GroupsOfPair(duplicates.reverse, p) # {}
           /\ NormFront(p[1]) # EmptyText
           /\ NormFront(p[1]) # NormFront(p[2])
    /\ \E p \in IndexPairs :
           /\ GroupsOfPair(duplicates.reverse, p) = {}
           /\ NormFront(p[1]) = NormBack(p[2])

----------------------------------------------------------------------------
(* C8 *)

\* C8: every Similar group is a pair of distinct records whose raw fronts
\* are both non-empty and whose score equals similarity(front_i, front_j)
\* with threshold <= score < 1.0; a pair whose raw fronts are identical
\* (score 1.0) is never in Similar.
C8_SimilarGroupsAreScoredPairs ==
    Found =>
        /\ \A g \in 1..Len(duplicates.similar) :
               \E p \in IndexPairs :
                   LET group == duplicates.similar[g]
                       front_i == Front(At(cards, p[1]))
                       front_j == Front(At(cards, p[2]))
                   IN  /\ g \in GroupsOfPair(duplicates.similar, p)
                       /\ group.cards[1].card = At(cards, p[1])
                       /\ group.cards[2].card = At(cards, p[2])
                       /\ front_i # EmptyText /\ front_j # EmptyText
                       /\ group.similarity = calculate_similarity(front_i, front_j)
                       /\ group.similarity.num * 100
                              >= similarity_threshold * group.similarity.den
                       /\ group.similarity.num < group.similarity.den
        /\ \A p \in IndexPairs :
               Front(At(cards, p[1])) = Front(At(cards, p[2]))
                   => GroupsOfPair(duplicates.similar, p) = {}

\* a Similar group whose score is exactly the threshold, in a deck with two
\* cards of identical non-empty front
C8_Witness ==
    /\ pc = "found"
    /\ \E g \in 1..Len(duplicates.similar) :
           duplicates.similar[g].similarity.num * 100
               = similarity_threshold * duplicates.similar[g].similarity.den
    /\ \E p \in IndexPairs :
           /\ Front(At(cards, p[1])) = Front(At(cards, p[2]))
           /\ Front(At(cards, p[1])) # EmptyText

----------------------------------------------------------------------------
(* C9 *)

\* the Similar condition on the cards with indices a and b
SimilarCondition(a, b) ==
    LET front_a == Front(At(cards, a))
        front_b == Front(At(cards, b))
        score == calculate_similarity(front_a, front_b)
    IN  /\ front_a # EmptyText /\ front_b # EmptyText
        /\ score.num * 100 >= similarity_threshold * score.den
        /\ score.num < score.den

----------------------------------------------------------------------------
(* C10 *)

\* text x occurs in text y
OccursIn(x, y) ==
    \E k \in 1..(Len(y) - Len(x) + 1) :
        \A h \in 1..Len(x) : y[k + h - 1] = x[h]

\* the roles of the two members of a Substring group
RolesOf(group) == <<group.cards[1].role, group.cards[2].role>>

\* C10: a Substring group is emitted for an unordered pair if and only if
\* both raw fronts are longer than 10 characters, one front is a literal
\* substring of the other and the two fronts are not identical; the member
\* whose front is the shorter text is tagged 'contained', the other 'container'.
C10_SubstringOnlyForDifferentFronts ==
    Found =>
        \A p \in IndexPairs :
            LET front_i == Front(At(cards, p[1]))
                front_j == Front(At(cards, p[2]))
                groups == GroupsOfPair(duplicates.substring, p)
            IN  /\ groups # {}
                       <=> /\ Len(front_i) > 10 /\ Len(front_j) > 10
                           /\ OccursIn(front_i, front_j) \/ OccursIn(front_j, front_i)
                           /\ front_i # front_j
                /\ \A g \in groups :
                       RolesOf(duplicates.substring[g])
                           = IF Len(front_i) < Len(front_j)
                             THEN <<"contained", "container">>
                             ELSE <<"container", "contained">>

----------------------------------------------------------------------------
(* C11 *)

\* the four normalized texts of the cards with indices a and b are all empty
BothSidesEmpty(a, b) ==
    /\ NormFront(a) = EmptyText /\ NormBack(a) = EmptyText
    /\ NormFront(b) = EmptyText /\ NormBack(b) = EmptyText

\* the groups of one category that have the cards with indices a and b as members
GroupsWithBoth(groups, a, b) ==
    {g \in 1..Len(groups) : {a, b} \subseteq MemberIndices(groups[g])}

\* C11: empty keys never match each other: two records whose front and back
\* are both empty (or missing) are not placed together in any duplicate
\* group, Exact, Reverse, Similar or Substring.
C11_EmptyKeysNeverMatch ==
    Found =>
        \A p \in IndexPairs :
            BothSidesEmpty(p[1], p[2]) =>
                /\ GroupsWithBoth(duplicates.exact, p[1], p[2]) = {}
                /\ GroupsWithBoth(duplicates.reverse, p[1], p[2]) = {}
                /\ GroupsWithBoth(duplicates.similar, p[1], p[2]) = {}
                /\ GroupsWithBoth(duplicates.substring, p[1], p[2]) = {}

----------------------------------------------------------------------------
(* C15 *)

\* the positions of the 'merge_reverse' suggestions that list the pair p
MergeReversePositions(p) ==
    {k \in 1..Len(suggestions) :
        /\ suggestions[k].action = "merge_reverse"
        /\ suggestions[k].indices = <<p[1], p[2]>>}

\* the positions of the 'review' suggestions with a similarity score that
\* list the pair p
SimilarReviewPositions(p) ==
    {k \in 1..Len(suggestions) :
        /\ suggestions[k].action = "review"
        /\ "similarity" \in DOMAIN suggestions[k]
        /\ suggestions[k].indices = <<p[1], p[2]>>}

\* neither card of the pair p is the target of a 'remove' suggestion
NeitherRemoved(p) == p[1] \notin RemoveTargets /\ p[2] \notin RemoveTargets

\* C15: for each Reverse group one 'merge_reverse' suggestion listing both
\* indices is emitted if and only if neither member is a 'remove' target,
\* and for each Similar group one 'review' suggestion listing both indices
\* and carrying the group's similarity score is emitted if and only if
\* neither member is a 'remove' target.
C15_MergeAndReviewUnlessRemoved ==
    Suggested =>
        \A p \in IndexPairs :
            /\ Cardinality(MergeReversePositions(p))
                   = IF GroupsOfPair(duplicates.reverse, p) # {} /\ NeitherRemoved(p)
                     THEN 1 ELSE 0
            /\ Cardinality(SimilarReviewPositions(p))
                   = IF GroupsOfPair(duplicates.similar, p) # {} /\ NeitherRemoved(p)
                     THEN 1 ELSE 0
            /\ \A k \in SimilarReviewPositions(p) :
                   \A g \in GroupsOfPair(duplicates.similar, p) :
                       suggestions[k].similarity = duplicates.similar[g].similarity

\* a Reverse group and a Similar group with their suggestion, and a Reverse
\* group and a Similar group whose second member alone is a 'remove' target
C15_Witness ==
    /\ pc = "suggested"
    /\ \E p \in IndexPairs :
           GroupsOfPair(duplicates.reverse, p) # {} /\ MergeReversePositions(p) # {}
    /\ \E p \in IndexPairs :
           /\ GroupsOfPair(duplicates.reverse, p) # {}
           /\ p[1] \notin RemoveTargets /\ p[2] \in RemoveTargets
    /\ \E p \in IndexPairs :
           GroupsOfPair(duplicates.similar, p) # {} /\ SimilarReviewPositions(p) # {}
    /\ \E p \in IndexPairs :
           /\ GroupsOfPair(duplicates.similar, p) # {}
           /\ p[1] \notin RemoveTargets /\ p[2] \in RemoveTargets

----------------------------------------------------------------------------
(* C16 *)

\* the positions of the 'review' suggestions without a similarity score
\* that list the pair p
SubstringReviewPositions(p) ==
    {k \in 1..Len(suggestions) :
        /\ suggestions[k].action = "review"
        /\ "similarity" \notin DOMAIN suggestions[k]
        /\ suggestions[k].indices = <<p[1], p[2]>>}

\* the indices of the members of a group that are tagged with a role
TaggedIndices(group, role) ==
    {group.cards[k].index : k \in {h \in 1..Len(group.cards) : group.cards[h].role = role}}

\* C16: for each Substring group one 'review' suggestion listing both
\* indices is emitted if and only if the member tagged 'contained' is not a
\* 'remove' target, whether or not the 'container' member is one.
C16_SubstringReviewUnlessContainedRemoved ==
    Suggested =>
        \A p \in IndexPairs :
            /\ Cardinality(GroupsOfPair(duplicates.substring, p)) <= 1
            /\ Cardinality(SubstringReviewPositions(p))
                   = IF \E g \in GroupsOfPair(duplicates.substring, p) :
                            TaggedIndices(duplicates.substring[g], "contained")
                                \cap RemoveTargets = {}
                     THEN 1 ELSE 0

\* a Substring group whose 'container' is a 'remove' target with its
\* 'review', and a Substring group whose 'contained' is a 'remove' target
C16_Witness ==
    /\ pc = "suggested"
    /\ \E p \in IndexPairs : \E g \in GroupsOfPair(duplicates.substring, p) :
           /\ TaggedIndices(duplicates.substring[g], "container") \subseteq RemoveTargets
           /\ TaggedIndices(duplicates.substring[g], "contained") \cap RemoveTargets = {}
           /\ SubstringReviewPositions(p) # {}
    /\ \E p \in IndexPairs : \E g \in GroupsOfPair(duplicates.substring, p) :
           /\ TaggedIndices(duplicates.substring[g], "contained") \subseteq RemoveTargets
           /\ TaggedIndices(duplicates.substring[g], "container") \cap RemoveTargets = {}
           /\ SubstringReviewPositions(p) = {}

----------------------------------------------------------------------------
(* C17 *)

\* the members of the Exact groups beyond the first of each, as <<group, position>>
ExtraMembers ==
    {m \in (1..Len(duplicates.exact)) \X (1..Len(cards)) :
        m[2] >= 2 /\ m[2] <= Len(duplicates.exact[m[1]].cards)}

\* C17: after one find_duplicates run on a newly created detector,
\* stats.total_cards is the number of input cards, stats.exact_duplicates
\* the sum over the Exact groups of (group size - 1), stats.similar_duplicates
\* the number of Similar groups and stats.reverse_duplicates the number of
\* Reverse groups.
C17_StatsCountTheGroups ==
    Found /\ calls = 1 =>
        /\ stats.total_cards = Len(cards)
        /\ stats.exact_duplicates = Cardinality(ExtraMembers)
        /\ stats.similar_duplicates = Len(duplicates.similar)
        /\ stats.reverse_duplicates = Len(duplicates.reverse)

\* one run that found Exact, Similar and Reverse groups, more Reverse
\* groups than Exact groups
C17_Witness ==
    /\ pc = "found" /\ calls = 1
    /\ stats.exact_duplicates >= 1
    /\ stats.similar_duplicates >= 1
    /\ stats.reverse_duplicates > Len(duplicates.exact)
    /\ stats.total_cards >= 4

----------------------------------------------------------------------------
(* C18: a DuplicateDetector whose find_duplicates is called more than once *)

\* the number of find_duplicates calls made on one detector
MaxCalls == 3

\* the number of cards of the short lists
MaxSmallCards == 2

\* the cards of the short lists
SmallRefs == {1, 2, 8}

SmallDecks == DecksOf(SmallRefs, MaxSmallCards)

InitReuse == Loaded(SmallDecks, Thresholds, "loaded")

\* detector.find_duplicates is called again, on any list, on the same detector
FindDuplicatesAgain ==
    /\ pc = "found"
    /\ calls < MaxCalls
    /\ \E list \in SmallDecks :
           LET found == find_duplicates_result(list, similarity_threshold)
           IN  /\ cards' = list
               /\ duplicates' = found
               /\ stats' = find_duplicates_stats(list, found, stats)
    /\ calls' = calls + 1
    /\ pc' = "found"
    /\ UNCHANGED <<deck_data, similarity_threshold, suggestions, cleaned_cards, source>>
    /\ UNCHANGED text_vars
    /\ UNCHANGED report_vars
    /\ UNCHANGED workers

NextReuse ==
    \/ FindDuplicates
    \/ FindDuplicatesAgain

SpecReuse == InitReuse /\ [][NextReuse]_vars

\* C18: the analyzer is a pure function of its input sequence: after any
\* sequence of find_duplicates calls on one DuplicateDetector, the groups
\* returned and the stats reported for the latest call are those of a
\* single call on a new detector with the same input; no count carries over
\* from an earlier run.
C18_LatestCallAsOnNewDetector ==
    Found =>
        /\ duplicates = find_duplicates_result(cards, similarity_threshold)
        /\ stats = find_duplicates_stats(cards, duplicates, NewStats)

----------------------------------------------------------------------------
(* C19: the construction of a DuplicateDetector with any threshold *)

\* the thresholds passed to DuplicateDetector, in hundredths: -0.1, 0, 0.75,
\* 0.85, 1 and 1.5
ConfigThresholds == {-10, 0, 75, DefaultThreshold, 100, 150}

\* the deck is loaded; similarity_threshold holds the argument that is
\* about to be passed to DuplicateDetector
InitConfig == Loaded(SmallDecks, ConfigThresholds, "configuring")

\* DuplicateDetector.__init__: the argument is stored as it is and the
\* counters are set to zero
Construct ==
    /\ pc = "configuring"
    /\ similarity_threshold' = similarity_threshold
    /\ stats' = NewStats
    /\ pc' = "loaded"
    /\ UNCHANGED <<deck_data, cards, duplicates, suggestions, cleaned_cards, source, calls>>
    /\ UNCHANGED text_vars
    /\ UNCHANGED report_vars
    /\ UNCHANGED workers

NextConfig ==
    \/ Construct
    \/ FindDuplicates
    \/ GenerateRemovalSuggestions
    \/ ApplyRemovals

SpecConfig == InitConfig /\ [][NextConfig]_vars

\* C19: a similarity threshold outside [0,1] is rejected at configuration
\* time, before any analysis starts: no detector is constructed with it and
\* no analysis runs with it.
C19_OutOfRangeThresholdRejected ==
    pc # "configuring" => similarity_threshold >= 0 /\ similarity_threshold <= 100

----------------------------------------------------------------------------
(* C20: decks with cards that lack fields *)

\* cards with both fields, without 'back', without 'front', without either,
\* and with an empty 'fields' dict
MalformedRefs == {1, 6, 7, 9, 10, 11}

MalformedDecks == DecksOf(MalformedRefs, MaxCards)

InitMalformed == Loaded(MalformedDecks, Thresholds, "loaded")

SpecMalformed == InitMalformed /\ [][Next]_vars

\* the dict the card's texts are read from: card['fields'] if there is one
FieldsOf(card) ==
    IF "fields" \in DOMAIN Dict(card) THEN Dict(card)["fields"] ELSE Dict(card)

\* the card has no front field
LacksFront(card) == {"Front", "front"} \cap DOMAIN FieldsOf(card) = {}

\* the card has no back field
LacksBack(card) == {"Back", "back"} \cap DOMAIN FieldsOf(card) = {}

\* the indices of the cards whose front is missing or empty
FrontlessIndices == {i \in Indices(cards) : Front(At(cards, i)) = EmptyText}

\* C20: for every input sequence in which records lack the front field, the
\* back field or both, find_duplicates and generate_removal_suggestions
\* complete (find_duplicates returns a report of the four categories for
\* the deck, generate_removal_suggestions makes its step), each missing
\* field is read as the empty string, and a record whose front is missing
\* or empty is a member of no Exact group and never a 'remove' target.
C20_MissingFieldsAreEmptyTexts ==
    /\ pc = "loaded" =>
           DOMAIN find_duplicates_result(cards, similarity_threshold) = DOMAIN NoDuplicates
    /\ pc = "found" => ENABLED GenerateRemovalSuggestions
    /\ \A i \in Indices(cards) :
           /\ LacksFront(At(cards, i)) => Front(At(cards, i)) = EmptyText
           /\ LacksBack(At(cards, i)) => Back(At(cards, i)) = EmptyText
    /\ Found => FrontlessIndices \cap GroupedIn(duplicates.exact) = {}
    /\ Suggested => FrontlessIndices \cap RemoveTargets = {}

\* the suggestions are made for a deck with a card without front, a card
\* without either field, and a card without back that is a 'remove' target
C20_Witness ==
    /\ pc = "suggested"
    /\ \E i, j \in Indices(cards) :
           /\ LacksFront(At(cards, i)) /\ ~LacksBack(At(cards, i))
           /\ LacksFront(At(cards, j)) /\ LacksBack(At(cards, j))
    /\ \E i \in RemoveTargets :
           LacksBack(At(cards, i)) /\ ~LacksFront(At(cards, i))

----------------------------------------------------------------------------
(* The text functions called on their own *)

\* the texts of at most n characters of chars
Texts(chars, n) == UNION {[1..k -> chars] : k \in 0..n}

\* no deck is loaded: a detector with the default threshold is at hand
NoDeck ==
    /\ deck_data = << >>
    /\ cards = << >>
    /\ similarity_threshold = DefaultThreshold
    /\ stats = NewStats
    /\ duplicates = NoDuplicates
    /\ suggestions = << >>
    /\ cleaned_cards = << >>
    /\ source = "deck"
    /\ calls = 0

\* a text function is about to be called with the arguments args
Called(args) ==
    /\ NoDeck
    /\ text_args \in args
    /\ text_result = << >>
    /\ report = << >>
    /\ script_report = << >>
    /\ workers = << >>
    /\ pc = "call"

----------------------------------------------------------------------------
(* C12: normalize_text on single texts *)

\* the length of the texts that are normalized
MaxTextLen == 4

\* the characters of the texts that are normalized: letters of both cases,
\* whitespace, trailing punctuation and the delimiters of markup
TextChars == {"a", "A", " ", ".", "<", ">"}

NormTexts == Texts(TextChars, MaxTextLen)

InitNormalize == Called({<<text>> : text \in NormTexts})

\* detector.normalize_text(text)
NormalizeText ==
    /\ pc = "call"
    /\ text_result' = normalize_text(text_args[1])
    /\ pc' = "returned"
    /\ UNCHANGED text_args
    /\ UNCHANGED deck_vars
    /\ UNCHANGED report_vars
    /\ UNCHANGED workers

NextNormalize == NormalizeText

SpecNormalize == InitNormalize /\ [][NextNormalize]_vars

\* the positions of the '>' characters of a text
ClosingPositions(text) == {k \in 1..Len(text) : text[k] = ">"}

RECURSIVE StripMarkup(_)
\* the text without its markup spans: every '<' with the text up to the
\* next '>' is left out
StripMarkup(text) ==
    IF text = EmptyText THEN EmptyText
    ELSE IF Head(text) = "<" /\ ClosingPositions(text) # {}
         THEN StripMarkup(SubSeq(text, Least(ClosingPositions(text)) + 1, Len(text)))
         ELSE <<Head(text)>> \o StripMarkup(Tail(text))

\* the text has a markup span and, outside its markup spans, only whitespace
OnlyMarkup(text) ==
    /\ StripMarkup(text) # text
    /\ \A k \in 1..Len(StripMarkup(text)) : StripMarkup(text)[k] \in Whitespace

\* C12: normalize removes every markup span '<...>' before comparing: a
\* text and the same text without its markup spans have the same normalized
\* key (so two fronts that differ only in markup tags have the same key),
\* and a text of only markup spans and whitespace normalizes to the empty
\* string.
C12_NormalizeRemovesMarkup ==
    pc = "returned" =>
        /\ text_result = normalize_text(StripMarkup(text_args[1]))
        /\ OnlyMarkup(text_args[1]) => text_result = EmptyText

----------------------------------------------------------------------------
(* C13, C14: calculate_similarity on pairs of texts *)

\* the length of the texts that are compared
MaxSimLen == 3

\* the characters of the texts that are compared
SimChars == {"a", "b", "c"}

SimTexts == Texts(SimChars, MaxSimLen)

InitSimilarity == Called(SimTexts \X SimTexts)

\* detector.calculate_similarity(text1, text2)
CalculateSimilarity ==
    /\ pc = "call"
    /\ text_result' = calculate_similarity(text_args[1], text_args[2])
    /\ pc' = "returned"
    /\ UNCHANGED text_args
    /\ UNCHANGED deck_vars
    /\ UNCHANGED report_vars
    /\ UNCHANGED workers

NextSimilarity == CalculateSimilarity

SpecSimilarity == InitSimilarity /\ [][NextSimilarity]_vars

\* C13: similarity is symmetric: for all texts a and b,
\* similarity(a, b) = similarity(b, a), the score being 2*M/(len(a)+len(b))
\* with M the total length of the matching blocks of the greedy
\* longest-match recursion of difflib.SequenceMatcher(None, a, b).
C13_SimilarityIsSymmetric ==
    pc = "returned" =>
        LET other == calculate_similarity(text_args[2], text_args[1])
        IN  text_result.num * other.den = other.num * text_result.den

\* C14: similarity is reflexive and bounded: similarity(x, x) = 1.0 for
\* every non-empty text x, and for all texts a, b the score is
\* 2*M/(len(a)+len(b)) with 0 <= 2*M <= len(a)+len(b), so it lies in [0,1].
C14_SimilarityReflexiveAndBounded ==
    pc = "returned" =>
        LET a == text_args[1]
            b == text_args[2]
        IN  /\ a = b /\ a # EmptyText => text_result.num = text_result.den
            /\ a # EmptyText \/ b # EmptyText => text_result.den = Len(a) + Len(b)
            /\ text_result.num % 2 = 0 \/ text_result.den = 1
            /\ 0 <= text_result.num /\ text_result.num <= text_result.den
            /\ text_result.den > 0

\* a text of the greatest length with two different characters has been
\* compared with itself
C14_Witness ==
    /\ pc = "returned"
    /\ text_args[1] = text_args[2]
    /\ Len(text_args[1]) >= MaxSimLen
    /\ text_args[1][1] # text_args[1][2]
    /\ text_result.num = text_result.den

----------------------------------------------------------------------------
(* C21 *)

\* C21: on the empty input sequence the pipeline completes with all four
\* stats equal to zero, all four duplicate categories empty, an empty
\* suggestion list and an empty cleaned sequence.
C21_EmptyInputGivesEmptyResults ==
    cards = << >> =>
        /\ Found => /\ stats = NewStats
                    /\ duplicates = NoDuplicates
        /\ Suggested => suggestions = << >>
        /\ pc = "cleaned" => cleaned_cards = << >>
        /\ pc = "loaded" =>
               DOMAIN generate_removal_suggestions(
                          find_duplicates_result(cards, similarity_threshold)) = {}

\* the pipeline has run to its end on the empty deck
C21_Witness ==
    /\ deck_data = << >>
    /\ pc = "cleaned"
    /\ calls = 1

----------------------------------------------------------------------------
(* C24 *)

\* C24: the kept card always survives: for every 'remove' suggestion,
\* duplicate_of is strictly smaller than index, duplicate_of is itself never
\* a 'remove' target, and the card at duplicate_of has the same normalized
\* front as the removed card.
C24_KeptCardSurvives ==
    Suggested =>
        \A k \in RemovePositions :
            /\ suggestions[k].duplicate_of < suggestions[k].index
            /\ suggestions[k].duplicate_of >= 0
            /\ suggestions[k].duplicate_of \notin RemoveTargets
            /\ NormFront(suggestions[k].duplicate_of) = NormFront(suggestions[k].index)

\* two cards are removed as duplicates of one kept card, one of them with a
\* raw front that differs from the kept card's
C24_Witness ==
    /\ pc = "suggested"
    /\ \E k, h \in RemovePositions :
           /\ k # h
           /\ suggestions[k].duplicate_of = suggestions[h].duplicate_of
           /\ Front(At(cards, suggestions[k].index))
                  # Front(At(cards, suggestions[k].duplicate_of))

----------------------------------------------------------------------------
(* C25 *)

\* the normalized front of the k-th card (1-based) of a list
KeyAt(list, k) == normalize_text(Front(list[k]))

\* the distinct non-empty normalized fronts of a list of cards
KeysOf(list) == {KeyAt(list, k) : k \in 1..Len(list)} \ {EmptyText}

\* the positions (1-based) of the cards of a list with the normalized front key
PositionsOfKey(list, key) == {k \in 1..Len(list) : KeyAt(list, k) = key}

\* C25: removal loses no key: the set of distinct non-empty normalized
\* fronts of the cleaned sequence equals that of the input, each such key
\* occurs exactly once in the cleaned sequence, and every record whose
\* normalized front is empty is kept.
C25_RemovalLosesNoKey ==
    pc = "cleaned" =>
        /\ KeysOf(cleaned_cards) = KeysOf(cards)
        /\ \A key \in KeysOf(cleaned_cards) :
               Cardinality(PositionsOfKey(cleaned_cards, key)) = 1
        /\ PositionsOfKey(cards, EmptyText) \cap {i + 1 : i \in RemoveTargets} = {}
        /\ Cardinality(PositionsOfKey(cleaned_cards, EmptyText))
               = Cardinality(PositionsOfKey(cards, EmptyText))

\* a deck with two keys, one of them on two cards, and a card with an
\* empty front has been cleaned
C25_Witness ==
    /\ pc = "cleaned"
    /\ Cardinality(KeysOf(cards)) >= 2
    /\ RemoveTargets # {}
    /\ Cardinality(PositionsOfKey(cleaned_cards, EmptyText)) >= 1
    /\ source = "deck"

----------------------------------------------------------------------------
(* C26 *)

\* the indices a 'merge_reverse' or 'review' suggestion lists
ListedIndices(suggestion) == {suggestion.indices[k] : k \in 1..Len(suggestion.indices)}

\* C26, as claimed: after generate_removal_suggestions on the output of find_duplicates
\* no 'merge_reverse' or 'review' suggestion lists an index that is the
\* target of a 'remove' suggestion.
C26_ReviewsListKeptCardsOnly ==
    Suggested =>
        \A k \in 1..Len(suggestions) :
            suggestions[k].action \in {"merge_reverse", "review"}
                => ListedIndices(suggestions[k]) \cap RemoveTargets = {}

\* the Substring groups whose members are the indices a suggestion lists, in order
SubstringGroupsOf(suggestion) ==
    {g \in 1..Len(duplicates.substring) :
        [k \in 1..Len(duplicates.substring[g].cards) |->
            duplicates.substring[g].cards[k].index] = suggestion.indices}

\* C26, amended: no 'merge_reverse' suggestion and no 'review' suggestion
\* with a similarity score lists the target of a 'remove' suggestion; a
\* 'review' suggestion of a Substring group never lists a 'remove' target
\* as its 'contained' member, but its 'container' member may be one.
C26_ReviewsListKeptContainedOnly ==
    Suggested =>
        \A k \in 1..Len(suggestions) :
            /\ \/ suggestions[k].action = "merge_reverse"
               \/ suggestions[k].action = "review" /\ "similarity" \in DOMAIN suggestions[k]
               => ListedIndices(suggestions[k]) \cap RemoveTargets = {}
            /\ suggestions[k].action = "review" /\ "similarity" \notin DOMAIN suggestions[k]
               => /\ SubstringGroupsOf(suggestions[k]) # {}
                  /\ \A g \in SubstringGroupsOf(suggestions[k]) :
                         TaggedIndices(duplicates.substring[g], "contained")
                             \cap RemoveTargets = {}

\* a 'review' of two cards with different raw fronts lists a 'remove' target,
\* the 'container' of its Substring group
C26_Witness ==
    /\ pc = "suggested"
    /\ \E k \in 1..Len(suggestions) :
           /\ suggestions[k].action = "review"
           /\ "similarity" \notin DOMAIN suggestions[k]
           /\ Front(At(cards, suggestions[k].indices[1]))
                  # Front(At(cards, suggestions[k].indices[2]))
           /\ \E g \in SubstringGroupsOf(suggestions[k]) :
                  /\ TaggedIndices(duplicates.substring[g], "container") \subseteq RemoveTargets
                  /\ TaggedIndices(duplicates.substring[g], "container") # {}

----------------------------------------------------------------------------
(* C28 *)

\* C28: count conservation: for an input processed by a newly created
\* detector, the length of the cleaned sequence is the number of input
\* cards minus the number of 'remove' suggestions, and the number of
\* 'remove' suggestions is stats.exact_duplicates.
C28_CountConservation ==
    /\ Suggested /\ calls = 1 => Cardinality(RemovePositions) = stats.exact_duplicates
    /\ pc = "cleaned" /\ calls = 1 =>
           Len(cleaned_cards) = Len(cards) - Cardinality(RemovePositions)

\* a deck with an Exact group of three cards and a card of its own has
\* been cleaned
C28_Witness ==
    /\ pc = "cleaned" /\ calls = 1
    /\ Len(duplicates.exact) = 1
    /\ stats.exact_duplicates = 2
    /\ Len(cleaned_cards) = 2

----------------------------------------------------------------------------
(* C29: the suggestions applied to the cleaned deck again *)

\* the number of cards of the decks whose suggestions are applied twice
MaxReapplyCards == 3

ReapplyDecks == DecksOf(SmallRefs, MaxReapplyCards)

InitReapply == Loaded(ReapplyDecks, Thresholds, "loaded")

\* detector.apply_removals(cleaned_cards, suggestions): the suggestions
\* that were saved are applied to the deck that was already cleaned
ApplyRemovalsAgain ==
    /\ pc = "cleaned"
    /\ cleaned_cards' = apply_removals(cleaned_cards, suggestions)
    /\ pc' = "reapplied"
    /\ UNCHANGED <<deck_data, cards, similarity_threshold, stats, duplicates,
                   suggestions, source, calls>>
    /\ UNCHANGED text_vars
    /\ UNCHANGED report_vars
    /\ UNCHANGED workers

NextReapply ==
    \/ FindDuplicates
    \/ GenerateRemovalSuggestions
    \/ ApplyRemovals
    \/ ApplyRemovalsAgain

SpecReapply == InitReapply /\ [][NextReapply]_vars

\* the cards of the list `cards` at the indices of kept, in their order
CardsAt(kept) ==
    [k \in 1..Cardinality(kept) |->
        At(cards, CHOOSE i \in kept : Below(kept, i) = k - 1)]

\* C29, as claimed: applying one suggestion list twice removes nothing
\* further: apply_removals(apply_removals(cards, s), s) =
\* apply_removals(cards, s).
C29_ReapplyingRemovesNothing ==
    pc = "reapplied" => cleaned_cards = CardsAt(KeptIndices)

\* the indices of the cards that are kept by both applications: the kept
\* cards whose position in the cleaned deck is no 'remove' target
TwiceKeptIndices == {i \in KeptIndices : Below(KeptIndices, i) \notin RemoveTargets}

\* C29, amended: the indices of the suggestions refer to the original
\* sequence: applied again to the cleaned deck they drop every card of the
\* cleaned deck whose position is a 'remove' target, so the second
\* application returns the cleaned deck exactly when every 'remove' target
\* is at or beyond the length of the cleaned deck.
C29_ReapplyingDropsByPosition ==
    /\ pc = "cleaned" => cleaned_cards = CardsAt(KeptIndices)
    /\ pc = "reapplied" =>
           /\ cleaned_cards = CardsAt(TwiceKeptIndices)
           /\ cleaned_cards = CardsAt(KeptIndices)
                  <=> \A r \in RemoveTargets : r >= Cardinality(KeptIndices)

\* the second application has dropped a card that the first one kept
C29_Witness ==
    /\ pc = "reapplied"
    /\ RemoveTargets # {}
    /\ Len(cleaned_cards) < Cardinality(KeptIndices)

----------------------------------------------------------------------------
(* C27 *)

\* C27: normalize_text is idempotent: normalize(normalize(t)) = normalize(t)
\* for every text t; in particular a normalized key never begins or ends
\* with whitespace, also when the input has whitespace before its trailing
\* punctuation run.
C27_NormalizeIsIdempotent ==
    pc = "returned" =>
        /\ normalize_text(text_result) = text_result
        /\ text_result # EmptyText =>
               /\ text_result[1] \notin Whitespace
               /\ text_result[Len(text_result)] \notin Whitespace

----------------------------------------------------------------------------
(* detect_duplicates.py: the script that groups the notes of a CrowdAnki     *)
(* deck by normalized front.  strip_html is HTMLParser.feed without close, *)
(* modelled for texts without '&' in which a '<' is followed by a letter,  *)
(* a space, '.', '<', '>' or nothing.                                      *)

\* the positions of the '>' characters of a text after position i
ClosingAfter(text, i) == {k \in (i + 1)..Len(text) : text[k] = ">"}

\* the character opens a tag name
IsLetter(c) ==
    \/ \E k \in 1..Len(LowerCase) : LowerCase[k] = c
    \/ \E k \in 1..Len(UpperCase) : UpperCase[k] = c

RECURSIVE StripFrom(_, _)
\* the data HTMLStripper collects from position i (1-based) on: text is
\* data, '<' with a letter opens a tag that ends at the next '>', a tag
\* that is not closed and a '<' at the end wait for more input and are
\* never handled, any other '<' is data
StripFrom(html, i) ==
    IF i > Len(html) THEN EmptyText
    ELSE IF html[i] # "<" THEN <<html[i]>> \o StripFrom(html, i + 1)
    ELSE IF i = Len(html) THEN EmptyText
    ELSE IF IsLetter(html[i + 1])
         THEN IF ClosingAfter(html, i) = {} THEN EmptyText
              ELSE StripFrom(html, Least(ClosingAfter(html, i)) + 1)
    ELSE <<"<">> \o StripFrom(html, i + 1)

\* detect_duplicates.strip_html
strip_html(html) == StripFrom(html, 1)

\* detect_duplicates.normalize_text
script_normalize_text(text) == normalize_text(strip_html(text))

\* the CrowdAnki note of a card: fields is the list of its texts
NoteOf(card) ==
    IF LacksFront(card) /\ LacksBack(card) THEN [fields |-> << >>]
    ELSE IF LacksBack(card) THEN [fields |-> <<Front(card)>>]
    ELSE [fields |-> <<Front(card), Back(card)>>]

\* extract_all_notes on a deck without children: the notes of the deck
all_notes(cardlist) == [k \in 1..Len(cardlist) |-> NoteOf(cardlist[k])]

RECURSIVE ScriptGroupsFrom(_, _, _)
\* the loop that fills the defaultdict `duplicates` of the script, from the
\* k-th note (1-based) on
ScriptGroupsFrom(notes, k, groups) ==
    IF k > Len(notes) THEN groups
    ELSE LET note == notes[k]
             has_fields == "fields" \in DOMAIN note /\ Len(note.fields) > 0
             front_norm == script_normalize_text(note.fields[1])
         IN  ScriptGroupsFrom(notes, k + 1,
                 IF has_fields /\ front_norm # EmptyText
                 THEN AddToGroup(groups, front_norm,
                          [deck |-> "Root",
                           front |-> note.fields[1],
                           back |-> IF Len(note.fields) > 1 THEN note.fields[2]
                                    ELSE EmptyText,
                           tags |-> << >>,
                           guid |-> EmptyText])
                 ELSE groups)

\* duplicate_groups before the sort: the groups of more than one note
duplicate_groups(notes) ==
    LET dups == SelectSeq(ScriptGroupsFrom(notes, 1, << >>), IsDuplicateGroup)
    IN  [g \in 1..Len(dups) |->
            [normalized |-> dups[g].key,
             count |-> Len(dups[g].members),
             notes |-> dups[g].members]]

\* the list as it is, were duplicate_groups.sort left out
Unsorted(groups) == groups

RECURSIVE InsertByCount(_, _)
\* group put in a list sorted by count, behind the groups of the same count
InsertByCount(sorted, group) ==
    IF sorted = << >> THEN <<group>>
    ELSE IF sorted[1].count >= group.count
         THEN <<sorted[1]>> \o InsertByCount(Tail(sorted), group)
         ELSE <<group>> \o sorted

RECURSIVE SortedFrom(_, _, _)
\* the groups from the k-th on put one by one in the sorted list
SortedFrom(groups, k, sorted) ==
    IF k > Len(groups) THEN sorted
    ELSE SortedFrom(groups, k + 1, InsertByCount(sorted, groups[k]))

\* duplicate_groups.sort(key=lambda x: x['count'], reverse=True): stable
SortByCount(groups) == SortedFrom(groups, 1, << >>)

RECURSIVE SumOfCountsLessOne(_)
\* sum(g['count'] - 1 for g in duplicate_groups)
SumOfCountsLessOne(groups) ==
    IF groups = << >> THEN 0
    ELSE (groups[1].count - 1) + SumOfCountsLessOne(Tail(groups))

\* the JSON report detect_duplicates saves
detect_duplicates(notes) ==
    LET sorted == SortByCount(duplicate_groups(notes))
    IN  [total_notes |-> Len(notes),
         duplicate_groups |-> Len(sorted),
         total_duplicates |-> SumOfCountsLessOne(sorted),
         duplicates |-> sorted]

----------------------------------------------------------------------------
(* C30: the script and the detector on the same records *)

\* the number of records of the decks given to both programs
MaxScriptCards == 5

\* cards with one normalized front in two spellings, another front, no
\* front, no field at all, and a front with markup
ScriptRefs == {1, 2, 3, 7, 10, 12}

ScriptDecks == DecksOf(ScriptRefs, MaxScriptCards)

InitScript == Loaded(ScriptDecks, {DefaultThreshold}, "loaded")

\* detect_duplicates.py is run on the CrowdAnki deck of the same records
DetectDuplicates ==
    /\ pc = "found"
    /\ script_report' = detect_duplicates(all_notes(cards))
    /\ pc' = "detected"
    /\ UNCHANGED report
    /\ UNCHANGED workers
    /\ UNCHANGED text_vars
    /\ UNCHANGED deck_vars

NextScript ==
    \/ FindDuplicates
    \/ DetectDuplicates

SpecScript == InitScript /\ [][NextScript]_vars

\* no front of the deck has a '<' (the texts of the decks have no '&')
MarkupFree == \A i \in Indices(cards) : \A k \in 1..Len(Front(At(cards, i))) :
                  Front(At(cards, i))[k] # "<"

\* the group of the script and the Exact group of the detector have the
\* same key and the same records in the same order
SameGroup(script_group, exact_group) ==
    /\ script_group.normalized = exact_group.reason[2]
    /\ script_group.count = Len(exact_group.cards)
    /\ Len(script_group.notes) = Len(exact_group.cards)
    /\ \A k \in 1..Len(exact_group.cards) :
           /\ script_group.notes[k].front = Front(exact_group.cards[k].card)
           /\ script_group.notes[k].back = Back(exact_group.cards[k].card)

\* C30: the two exact-duplicate detectors agree on markup-free input: the
\* duplicate groups built by detect_duplicates before its sort and the
\* Exact groups of find_duplicates are the same partition of the same
\* records in the same order, total_duplicates equals
\* stats.exact_duplicates, and after the sort the groups of
\* detect_duplicates are in non-increasing order of count.
C30_ScriptAgreesWithDetector ==
    pc = "detected" =>
        LET before_sort == duplicate_groups(all_notes(cards))
            sorted == script_report.duplicates
        IN  /\ MarkupFree =>
                   /\ Len(before_sort) = Len(duplicates.exact)
                   /\ \A g \in 1..Len(before_sort) :
                          SameGroup(before_sort[g], duplicates.exact[g])
                   /\ script_report.total_duplicates = stats.exact_duplicates
            /\ \A g \in 1..(Len(sorted) - 1) : sorted[g].count >= sorted[g + 1].count
            /\ Len(sorted) = Len(before_sort)
            /\ \A g \in 1..Len(before_sort) : \E h \in 1..Len(sorted) :
                   sorted[h] = before_sort[g]

\* a markup-free deck with a group of two before a group of three, which
\* the sort of the script has put in the other order
C30_Witness ==
    /\ pc = "detected"
    /\ MarkupFree
    /\ Len(duplicates.exact) = 2
    /\ Len(duplicates.exact[1].cards) = 2
    /\ script_report.duplicates[1].count = 3
    /\ script_report.total_duplicates = 3

----------------------------------------------------------------------------
(* generate_report.  The report is kept as the list of its lines before    *)
(* '\n'.join, each line as its kind and the values formatted into it.      *)

\* duplicates['exact'][:10]
ExactShown == 10

\* duplicates['similar'][:5]
SimilarShown == 5

\* [:50] on the front of an Exact group
ExactFrontShown == 50

\* [:40] on the fronts of a Similar group
SimilarFrontShown == 40

\* list[:n]
Prefix(list, n) == SubSeq(list, 1, IF Len(list) < n THEN Len(list) ELSE n)

\* card.get('fields', {}).get('Front', '')
FieldsFront(card) == Get(Get(Dict(card), "fields", << >>), "Front", EmptyText)

\* f"{similarity:.0%}": the percentage rounded to a whole number, a tie to even
Percent(similarity) ==
    LET q == (100 * similarity.num) \div similarity.den
        r == (100 * similarity.num) % similarity.den
    IN  IF 2 * r > similarity.den THEN q + 1
        ELSE IF 2 * r = similarity.den THEN q + (q % 2)
        ELSE q

\* sum(1 for s in suggestions if s['action'] == action)
ActionCount(suggs, action) ==
    Cardinality({k \in 1..Len(suggs) : suggs[k].action = action})

\* a line of the report
Line(kind, values) == [line |-> kind, values |-> values]

\* len(groups) with the shown groups counted too
MoreThanNone(groups, shown) == Len(groups)

\* len(groups) - shown
MoreThan(groups, shown) == Len(groups) - shown

\* the heading and the counts the report starts with
ReportHead(suggs, st) ==
    << Line("# Duplicate Detection Report", << >>),
       Line("Total cards analyzed", <<st.total_cards>>),
       Line("Exact duplicates found", <<st.exact_duplicates>>),
       Line("Similar cards found", <<st.similar_duplicates>>),
       Line("Reverse pairs found", <<st.reverse_duplicates>>),
       Line("## Suggested Actions", << >>),
       Line("Cards to remove", <<ActionCount(suggs, "remove")>>),
       Line("Cards to review", <<ActionCount(suggs, "review")>>) >>

\* the lines of `if duplicates['exact']:`
ReportExact(groups) ==
    LET shown == Prefix(groups, ExactShown)
    IN  IF Len(groups) = 0 THEN << >>
        ELSE <<Line("## Exact Duplicates", << >>)>>
             \o [i \in 1..Len(shown) |->
                    Line("appears",
                         <<i, Prefix(FieldsFront(shown[i].cards[1].card), ExactFrontShown),
                           Len(shown[i].cards)>>)]
             \o (IF Len(groups) > ExactShown
                 THEN <<Line("more groups", <<MoreThan(groups, ExactShown)>>)>>
                 ELSE << >>)

\* the three lines of one Similar group
ReportSimilarOne(i, group) ==
    << Line("similar", <<i, Percent(group.similarity)>>),
       Line("front", <<Prefix(FieldsFront(group.cards[1].card), SimilarFrontShown)>>),
       Line("front", <<Prefix(FieldsFront(group.cards[2].card), SimilarFrontShown)>>) >>

\* the lines of the first k of the shown Similar groups
ReportSimilarUpTo(shown, k) ==
    [n \in 1..(3 * k) |-> ReportSimilarOne((n + 2) \div 3, shown[(n + 2) \div 3])[((n - 1) % 3) + 1]]

\* the lines of `if duplicates['similar']:`
ReportSimilar(groups) ==
    LET shown == Prefix(groups, SimilarShown)
    IN  IF Len(groups) = 0 THEN << >>
        ELSE <<Line("## Similar Cards (Manual Review Needed)", << >>)>>
             \o ReportSimilarUpTo(shown, Len(shown))
             \o (IF Len(groups) > SimilarShown
                 THEN <<Line("more pairs", <<MoreThan(groups, SimilarShown)>>)>>
                 ELSE << >>)

\* DuplicateDetector.generate_report, reading self.stats
generate_report(dups, suggs, st) ==
    ReportHead(suggs, st) \o ReportExact(dups.exact) \o ReportSimilar(dups.similar)

\* the most pairs of cards of one letter, and the most eight-character
\* cards, in a long deck
MaxReportExact == 11
MaxReportSimilar == 6

\* n pairs of one-letter cards
ExactPairs(n) == [k \in 1..(2 * n) |-> Len(CardObjects) + ((k + 1) \div 2)]

\* the first m eight-character cards
SimilarRun(m) == [k \in 1..m |-> Len(CardObjects) + Len(ReportLetters) + k]

\* long decks: maybe two cards in the 'front' format, then pairs of equal
\* one-letter cards, then eight-character cards
ReportDecks ==
    {lead \o ExactPairs(n) \o SimilarRun(m) :
        lead \in {<< >>, <<1, 1>>}, n \in 0..MaxReportExact, m \in 0..MaxReportSimilar}

InitReport == Loaded(ReportDecks, Thresholds, "loaded")

\* report = detector.generate_report(duplicates, suggestions)
GenerateReport ==
    /\ pc = "suggested"
    /\ report' = generate_report(duplicates, suggestions, stats)
    /\ pc' = "reported"
    /\ UNCHANGED script_report
    /\ UNCHANGED workers
    /\ UNCHANGED text_vars
    /\ UNCHANGED deck_vars

NextReport ==
    \/ FindDuplicates
    \/ GenerateRemovalSuggestions
    \/ GenerateReport

SpecReport == InitReport /\ [][NextReport]_vars

\* the positions of the lines of a kind in the report
LinesOf(kind) == {k \in 1..Len(report) : report[k].line = kind}

\* the smaller of two numbers
Smaller(a, b) == IF a < b THEN a ELSE b

\* the lines of a kind are numbered 1..shown in the order of the report
\* and each tells of the group of its number what tells(line, group) says
ShowsFirst(kind, groups, shown, Tells(_, _)) ==
    /\ Cardinality(LinesOf(kind)) = shown
    /\ \A k \in LinesOf(kind) :
         /\ report[k].values[1] = Cardinality({j \in LinesOf(kind) : j <= k})
         /\ report[k].values[1] \in 1..shown
         /\ Tells(report[k], groups[report[k].values[1]])

\* the tail line of a kind is there exactly when there are more groups
\* than the cap, once, and states the number of groups beyond the cap
TailStates(kind, groups, cap) ==
    /\ Len(groups) > cap =>
         /\ Cardinality(LinesOf(kind)) = 1
         /\ \A k \in LinesOf(kind) : report[k].values = <<Len(groups) - cap>>
    /\ Len(groups) <= cap => LinesOf(kind) = {}

ExactLineTells(line, group) == line.values[3] = Len(group.cards)

SimilarLineTells(line, group) == line.values[2] = Percent(group.similarity)

\* C22: once generate_report has returned, the duplicates structure, the
\* suggestion list and the stats are what find_duplicates and
\* generate_removal_suggestions returned for the deck; the report has a
\* line for each of the first 10 Exact groups and each of the first 5
\* Similar groups and for no other group; and a category of more groups
\* than its cap N has one tail line, which states the number of groups
\* less N, while a category within its cap has none.
C22_ReportLosesNothing ==
    pc = "reported" =>
        /\ duplicates = find_duplicates_result(cards, similarity_threshold)
        /\ stats = find_duplicates_stats(cards, duplicates, NewStats)
        /\ suggestions = generate_removal_suggestions(duplicates)
        /\ ShowsFirst("appears", duplicates.exact,
                      Smaller(Len(duplicates.exact), ExactShown), ExactLineTells)
        /\ ShowsFirst("similar", duplicates.similar,
                      Smaller(Len(duplicates.similar), SimilarShown), SimilarLineTells)
        /\ TailStates("more groups", duplicates.exact, ExactShown)
        /\ TailStates("more pairs", duplicates.similar, SimilarShown)

\* a report of a deck with more Exact groups than 10 and more Similar
\* groups than 5, with both tail lines
C22_Witness ==
    /\ pc = "reported"
    /\ Len(duplicates.exact) > ExactShown + 1
    /\ Len(duplicates.similar) > SimilarShown + 1
    /\ LinesOf("more groups") # {}
    /\ LinesOf("more pairs") # {}

----------------------------------------------------------------------------
(* The pairwise pass of find_duplicates split by rows.  The code runs the  *)
(* nested loops in one thread; here the rows of the outer loop are dealt   *)
(* to workers, each of which runs the body of the inner loop on the pairs  *)
(* of its rows and appends to lists of its own, and the lists are merged   *)
(* afterwards, before generate_removal_suggestions runs once.              *)

\* the most cards in a deck compared by workers, and the most workers
MaxShardCards == 3
MaxWorkers == 2

\* cards with a reverse pair, a similar pair and a substring pair among them
ShardRefs == {1, 2, 4, 5, 6}

ShardDecks == DecksOf(ShardRefs, MaxShardCards)

InitShards == Loaded(ShardDecks, Thresholds, "loaded")

\* the ways of cutting the rows 0..n-1 into at most MaxWorkers ranges
\* [lo, hi), each way the list of its ranges
RowRanges(n) ==
    LET Cuts == {c \in SUBSET (1..(n - 1)) : Cardinality(c) < MaxWorkers}
        Bounds(c) == c \cup {0, n}
        Lows(c) == Bounds(c) \ {n}
        Nth(S, k) == CHOOSE x \in S : Cardinality({y \in S : y < x}) = k - 1
    IN  {[w \in 1..Cardinality(Lows(c)) |->
            <<Nth(Lows(c), w), Nth(Bounds(c) \ {0}, w)>>] : c \in Cuts}

\* the pairs of the rows [lo, hi), in the order the nested loops visit them
PairsOfRows(n, rows) ==
    LET InRows(p) == rows[1] <= p[1] /\ p[1] < rows[2]
    IN  SelectSeq(Pairs(n), InRows)

\* the body of the inner loop with the substring check made an `elif` of
\* the reverse and the similar check
PairGroupsOneKind(cardlist, p, threshold) ==
    LET card1 == At(cardlist, p[1])
        card2 == At(cardlist, p[2])
        info == <<CardInfo(cardlist, p[1]), CardInfo(cardlist, p[2])>>
        roles == SubstringRoles(card1, card2)
    IN  [reverse |->
            IF ReverseTest(card1, card2)
            THEN <<[type |-> "reverse", cards |-> info,
                    reason |-> "Cards are reverses of each other"]>>
            ELSE << >>,
         similar |->
            IF SimilarTest(card1, card2, threshold)
            THEN <<[type |-> "similar", cards |-> info,
                    similarity |-> calculate_similarity(Front(card1), Front(card2))]>>
            ELSE << >>,
         substring |->
            IF /\ roles # << >>
               /\ ~ReverseTest(card1, card2)
               /\ ~SimilarTest(card1, card2, threshold)
            THEN <<[type |-> "substring",
                    cards |-> <<[index |-> p[1], card |-> card1, role |-> roles[1]],
                                [index |-> p[2], card |-> card2, role |-> roles[2]]>>,
                    reason |-> IF roles[1] = "contained"
                               THEN "First card is contained in second"
                               ELSE "Second card is contained in first"]>>
            ELSE << >>]

\* what one pass of the body of the inner loop, on the pair p = (idx1, idx2),
\* appends to duplicates['reverse'], ['similar'] and ['substring']
PairGroups(cardlist, p, threshold) ==
    LET card1 == At(cardlist, p[1])
        card2 == At(cardlist, p[2])
        info == <<CardInfo(cardlist, p[1]), CardInfo(cardlist, p[2])>>
        roles == SubstringRoles(card1, card2)
    IN  [reverse |->
            IF ReverseTest(card1, card2)
            THEN <<[type |-> "reverse", cards |-> info,
                    reason |-> "Cards are reverses of each other"]>>
            ELSE << >>,
         similar |->
            IF SimilarTest(card1, card2, threshold)
            THEN <<[type |-> "similar", cards |-> info,
                    similarity |-> calculate_similarity(Front(card1), Front(card2))]>>
            ELSE << >>,
         substring |->
            IF roles # << >>
            THEN <<[type |-> "substring",
                    cards |-> <<[index |-> p[1], card |-> card1, role |-> roles[1]],
                                [index |-> p[2], card |-> card2, role |-> roles[2]]>>,
                    reason |-> IF roles[1] = "contained"
                               THEN "First card is contained in second"
                               ELSE "Second card is contained in first"]>>
            ELSE << >>]

\* a worker on the rows [lo, hi): the pairs it has to compare, how many of
\* them it has compared, and the lists it has appended to
NewWorker(n, rows) ==
    [rows |-> rows, pairs |-> PairsOfRows(n, rows), done |-> 0,
     found |-> [reverse |-> << >>, similar |-> << >>, substring |-> << >>]]

\* the first pass of find_duplicates runs as in the code, and the rows of
\* the pairwise pass are dealt to workers
Shard ==
    /\ pc = "loaded"
    /\ duplicates' = [NoDuplicates EXCEPT !.exact = ExactGroups(cards)]
    /\ stats' = find_duplicates_stats(cards, duplicates', stats)
    /\ \E ranges \in RowRanges(Len(cards)) :
         workers' = [w \in 1..Len(ranges) |-> NewWorker(Len(cards), ranges[w])]
    /\ calls' = calls + 1
    /\ pc' = "comparing"
    /\ UNCHANGED <<deck_data, cards, similarity_threshold, suggestions, cleaned_cards, source>>
    /\ UNCHANGED text_vars
    /\ UNCHANGED report_vars

\* a worker runs the body of the inner loop on its next pair
Compare(w) ==
    /\ pc = "comparing"
    /\ workers[w].done < Len(workers[w].pairs)
    /\ LET p == workers[w].pairs[workers[w].done + 1]
           new == PairGroups(cards, p, similarity_threshold)
       IN  /\ workers' =
                [workers EXCEPT
                    ![w].done = @ + 1,
                    ![w].found = [reverse |-> @.reverse \o new.reverse,
                                  similar |-> @.similar \o new.similar,
                                  substring |-> @.substring \o new.substring]]
           /\ stats' =
                [stats EXCEPT
                    !.reverse_duplicates = @ + Len(new.reverse),
                    !.similar_duplicates = @ + Len(new.similar)]
    /\ UNCHANGED <<deck_data, cards, similarity_threshold, duplicates, suggestions,
                   cleaned_cards, source, calls, pc>>
    /\ UNCHANGED text_vars
    /\ UNCHANGED report_vars

RECURSIVE MergedFrom(_, _, _)
\* the lists of a kind of the workers order[k], order[k + 1], ..., joined
MergedFrom(order, k, kind) ==
    IF k > Len(order) THEN << >>
    ELSE workers[order[k]].found[kind] \o MergedFrom(order, k + 1, kind)

\* the orders in which the lists of the workers may be joined
MergeOrders ==
    {order \in [1..Len(workers) -> 1..Len(workers)] :
        \A a, b \in 1..Len(workers) : order[a] = order[b] => a = b}

\* all workers are through with their rows and one thread joins their lists
Merge ==
    /\ pc = "comparing"
    /\ \A w \in 1..Len(workers) : workers[w].done = Len(workers[w].pairs)
    /\ \E order \in MergeOrders :
         duplicates' = [duplicates EXCEPT
                           !.reverse = MergedFrom(order, 1, "reverse"),
                           !.similar = MergedFrom(order, 1, "similar"),
                           !.substring = MergedFrom(order, 1, "substring")]
    /\ pc' = "found"
    /\ UNCHANGED <<deck_data, cards, similarity_threshold, stats, suggestions,
                   cleaned_cards, source, calls, workers>>
    /\ UNCHANGED text_vars
    /\ UNCHANGED report_vars

NextShards ==
    \/ Shard
    \/ \E w \in 1..Len(workers) : Compare(w)
    \/ Merge
    \/ GenerateRemovalSuggestions

SpecShards == InitShards /\ [][NextShards]_vars

\* the elements of a list
Elements(list) == {list[k] : k \in 1..Len(list)}

\* the pair of indices a group of two cards is about
PairOf(group) == <<group.cards[1].index, group.cards[2].index>>

\* the pairs a worker has compared
ComparedBy(w) == {workers[w].pairs[k] : k \in 1..workers[w].done}

\* the list holds the groups of the sequential list, each once, that are
\* about a pair of the set
HoldsGroupsOf(list, sequential, pairs) ==
    /\ Elements(list) = {g \in Elements(sequential) : PairOf(g) \in pairs}
    /\ \A a, b \in 1..Len(list) : list[a] = list[b] => a = b

\* C23: with the rows of the pairwise pass dealt to workers, whatever the
\* order of their steps, a worker's lists hold the groups the sequential
\* run finds for the pairs the worker has compared, each once and whatever
\* the other workers have done; the merged lists hold the Reverse, Similar
\* and Substring groups of the sequential run, each once; and the one pass
\* of generate_removal_suggestions over them removes the indices the
\* sequential run removes.
C23_ShardedPassFindsTheSameGroups ==
    LET sequential == find_duplicates_result(cards, similarity_threshold)
    IN  /\ pc = "comparing" =>
             \A w \in 1..Len(workers) :
                 /\ HoldsGroupsOf(workers[w].found.reverse, sequential.reverse, ComparedBy(w))
                 /\ HoldsGroupsOf(workers[w].found.similar, sequential.similar, ComparedBy(w))
                 /\ HoldsGroupsOf(workers[w].found.substring, sequential.substring, ComparedBy(w))
        /\ pc \in {"found", "suggested"} =>
             /\ duplicates.exact = sequential.exact
             /\ HoldsGroupsOf(duplicates.reverse, sequential.reverse, Elements(Pairs(Len(cards))))
             /\ HoldsGroupsOf(duplicates.similar, sequential.similar, Elements(Pairs(Len(cards))))
             /\ HoldsGroupsOf(duplicates.substring, sequential.substring, Elements(Pairs(Len(cards))))
             /\ Len(duplicates.reverse) = Len(sequential.reverse)
             /\ Len(duplicates.similar) = Len(sequential.similar)
             /\ Len(duplicates.substring) = Len(sequential.substring)
        /\ pc = "suggested" =>
             indices_to_remove(suggestions)
                 = indices_to_remove(generate_removal_suggestions(sequential))

\* two workers have found groups, their lists were merged in an order that
\* is not the order of the sequential run, and a card is removed
C23_Witness ==
    /\ pc = "suggested"
    /\ Len(workers) = 2
    /\ \A w \in 1..Len(workers) :
         workers[w].found.similar # << >> \/ workers[w].found.substring # << >>
    /\ duplicates # find_duplicates_result(cards, similarity_threshold)
    /\ indices_to_remove(suggestions) # {}

====
